---- MODULE Spec2Model ----
(***************************************************************************)
(* Multi-camera recognition pipeline of vision-pro: the face match engine  *)
(* (camera_stream.py / intruder_tracker.py), the intruder registry with    *)
(* its load / truncate / dump steps, and the two debounce gates of the     *)
(* recognition stage.                                                      *)
(*                                                                         *)
(* Representation.  A descriptor is a point on a line and the distance of  *)
(* two descriptors is their absolute difference, counted in tenths (so the *)
(* tolerance 0.6 is 6).  Time is counted in whole seconds.  The identity   *)
(* id "Intruder_n" is the number n.  A catalog label "Alice__female" is    *)
(* the tuple <<"Alice", "female">> of its "__"-separated parts, and the    *)
(* string "Unknown" is <<"Unknown">>.  A log entry keeps the name, gender  *)
(* and image-link columns; the snapshot path is <<"intruders", n>> and the *)
(* link "N/A" is <<"N/A">>.                                                *)
(***************************************************************************)
EXTENDS Integers, Sequences, FiniteSets, TLC

\* ------------------------------------------------------------- constants
UNKNOWN_CAPTURE_DEBOUNCE_TIME == 10
KNOWN_FACE_LOG_DEBOUNCE_TIME == 25
RECOGNITION_TOLERANCE == 6
FRAME_SKIP == 4
MAX_REASONABLE_FACES == 10
QUEUE_MAXSIZE == 1

\* --------------------------------------------------------------- bounds
\* The clock reads StartTime when the pipeline starts and the model stops
\* the clock Horizon seconds later.
StartTime == 10
GateHorizon == 11
KnownHorizon == 25
BothHorizon == 3
\* Unknown-face detections that reach the global gate in one run, and
\* known-face detections in one run.
MaxGateChecks == 3
MaxKnownLogs == 3
BothGateChecks == 2
BothKnownLogs == 2
\* Direct calls of match_or_add_intruder made by the registry drivers.
MaxCalls == 3
MaxLogCalls == 3
\* Face match engine inputs: coordinates 0..MaxCoord, tolerances
\* 0..MaxTol, reference lists of up to MaxRefs entries.
MaxCoord == 9
MaxTol == 6
MaxRefs == 3
\* Frames a capture source delivers: to the acquisition stage on its own,
\* and to a whole session.
AcquireFrames == 4
MaxFrames == 8
\* Unknown-face detections and known-face logs of the session whose frames
\* are followed one by one, and the seconds its clock runs.
FrameGateChecks == 1
FrameKnownLogs == 1
FrameHorizon == 0
\* Times the capture source of such a session can be opened.
FrameOpens == 1
\* The full event step by step: the seconds the clock runs and the
\* unknown-face detections that reach the gate.
EventHorizon == 10
EventGateChecks == 2
\* The acquisition stages on their own, with a source that reopens: frames
\* it delivers and times it can be opened.
CaptureFrames == 2
CaptureOpens == 3
\* The whole pipeline under its supervisor: frames each source delivers
\* (the sessions have had three when the model starts), times a source can
\* be opened, unknown-face detections, and the seconds the clock runs.
PipeFrames == 4
PipeOpens == 1
PipeGateChecks == 1
PipeHorizon == 0

\* ---------------------------------------------------------------- names
Cameras == {"cam0", "cam1"}
Callers == {"drv0", "drv1"}
Threads == Cameras \cup Callers

None == -1
NoImage == <<>>
NotAvailable == <<"N/A">>
Free == "free"
\* An output frame is [frame |-> n, overlay |-> drawn or not].
NoFrame == [frame |-> 0, overlay |-> FALSE]
Unknown == <<"Unknown">>

\* The catalog loaded once at pipeline start (parallel lists).
known_face_encodings == <<0, 40>>
known_face_names == << <<"Alice", "female">>, <<"Bob", "male">> >>

\* The descriptors the detector hands to the recognition stage and to the
\* registry drivers.
FaceInputs == {4, 38, 9, 20}
DriverInputs == {9, 14, 20, 31}

VARIABLES
    now,                        \* the latest reading of the wall clock, in seconds
    last_unknown_capture_time,  \* _last_unknown_capture_time
    debounce_lock,              \* holder of _unknown_capture_debounce_lock, or Free
    db,                         \* intruder_encodings.pkl: sequence of [enc, id]
    snapshots,                  \* files in INTRUDERS_FOLDER
    log,                        \* the entry log: sequence of entries
    sent,                       \* notifications handed to send_alert_in_thread
    pc,                         \* position of each thread
    face_encoding,              \* the face being resolved
    current_time_epoch,         \* the clock value sampled before the gate
    intruder_id_for_event,      \* the local of _run_processing_loop; None = unbound
    encodings,                  \* match_or_add_intruder's loaded list
    last_logged_times,          \* per session: label -> time of last log, or None
    last_known,                 \* history: the latest known-face detection
    gate_log,                   \* history: the gate decisions, in lock order
    event_log,                  \* history: the full events, in start order
    calls,                      \* history: the drivers' returned calls
    q_refs, q_enc, q_tol, q_known, q_intruder,  \* face match engine harness
    stop_event,                 \* the shared stop flag
    rpc,                        \* position of each acquisition (reader) thread
    acquired,                   \* per session: frames read so far; frame n is the n-th
    rframe,                     \* the reader's local frame
    internal_frame_queue,       \* per session: the handoff queue (maxsize 1)
    frame_queue,                \* per session: the output queue (maxsize 1)
    frame_counter,              \* the local of _run_processing_loop
    frame,                      \* the frame the recognition stage works on
    face_count,                 \* len(face_locations) of that frame, or None
    received,                   \* history: frames the recognition stage got
    last_published,             \* history: the latest frame offered for output
    cap,                        \* per session: self.cap.isOpened()
    handles,                    \* per session: capture handles now open
    opens,                      \* history: handles the session opened so far
    logging_lock,               \* holder of logging_lock, or Free
    full_path_for_new_capture,  \* the local of the full event, or NoImage
    email_threads,              \* the threads send_alert_in_thread started
    event_steps,                \* history: the steps of a session's latest event
    sup_pc,                     \* position of start_live_face_recognition
    sup_i,                      \* its index into camera_streams
    join_timeouts,              \* history: the joins that timed out
    fatal,                      \* history: sessions that met a fatal condition
    available_cameras_inputs,   \* the configured cameras, in order
    final_active_camera_inputs, \* those that passed the open check
    passed,                     \* history: cameras whose check opened
    gui_pc,                     \* position of the collaborator's handler
    alive_at_clear,             \* history: threads alive when the flag was cleared
    log_file,                   \* the log file, in the pieces it was written in
    log_calls,                  \* history: the calls of the concurrent writers
    formatted_entry             \* per writer: the local of write_log_entry

vars == <<now, last_unknown_capture_time, debounce_lock, db, snapshots, log,
          sent, pc, face_encoding, current_time_epoch, intruder_id_for_event,
          encodings, last_logged_times, last_known, gate_log, event_log,
          calls, q_refs, q_enc, q_tol, q_known, q_intruder,
          stop_event, rpc, acquired, rframe, internal_frame_queue,
          frame_queue, frame_counter, frame, face_count, received,
          last_published, cap, handles, opens, logging_lock,
          full_path_for_new_capture, email_threads, event_steps, sup_pc,
          sup_i, join_timeouts, fatal, available_cameras_inputs,
          final_active_camera_inputs, passed, gui_pc, alive_at_clear,
          log_file, log_calls, formatted_entry>>

frameVars == <<stop_event, rpc, acquired, rframe, internal_frame_queue,
               frame_queue, frame_counter, frame, face_count, received,
               last_published>>

capVars == <<cap, handles, opens>>

eventVars == <<logging_lock, full_path_for_new_capture, email_threads>>

supVars == <<sup_pc, sup_i, join_timeouts>>

startVars == <<available_cameras_inputs, final_active_camera_inputs, passed>>

guiVars == <<gui_pc, alive_at_clear>>

logVars == <<log_file, log_calls, formatted_entry>>

\* The start of the supervisor and the collaborator that stops it.
runVars == <<startVars, guiVars, logVars>>

\* The capture handles, the steps of the full event taken one by one, and
\* the supervisor.
ctlVars == <<capVars, eventVars, event_steps, supVars, runVars, fatal>>

\* What a full event or a known-face log touches.
sideVars == <<now, last_unknown_capture_time, debounce_lock, db, snapshots,
              log, sent, face_encoding, current_time_epoch,
              intruder_id_for_event, encodings, last_logged_times,
              last_known, gate_log, event_log, calls>>

pipelineVars == <<now, last_unknown_capture_time, debounce_lock, db, snapshots,
                  log, sent, pc, face_encoding, current_time_epoch,
                  intruder_id_for_event, encodings,
                  last_logged_times, last_known, gate_log, event_log, calls>>

matchVars == <<q_refs, q_enc, q_tol, q_known, q_intruder>>

\* ---------------------------------------------------- face match engine
Abs(x) == IF x < 0 THEN -x ELSE x

\* face_recognition.face_distance: the distance to every reference entry.
face_distance(refs, enc) == [i \in 1..Len(refs) |-> Abs(refs[i] - enc)]

\* face_recognition.compare_faces: distance <= tolerance, entry by entry.
compare_faces(refs, enc, tolerance) ==
    [i \in 1..Len(refs) |-> face_distance(refs, enc)[i] <= tolerance]

\* np.argmin: the first index holding the minimum.
argmin(dists) ==
    CHOOSE i \in 1..Len(dists) :
        /\ \A j \in 1..Len(dists) : dists[i] <= dists[j]
        /\ \A j \in 1..(i - 1) : dists[j] > dists[i]

\* Mutant: the first entry within tolerance is accepted.
CatalogMatch_FirstMatch(refs, enc, tolerance) ==
    IF \E i \in 1..Len(refs) : compare_faces(refs, enc, tolerance)[i]
    THEN CHOOSE i \in 1..Len(refs) :
            /\ compare_faces(refs, enc, tolerance)[i]
            /\ \A j \in 1..(i - 1) : ~compare_faces(refs, enc, tolerance)[j]
    ELSE 0

\* Catalog matcher of the recognition stage: index of the accepted entry,
\* 0 for no match.
CatalogMatch(refs, enc, tolerance) ==
    IF Len(refs) = 0 THEN 0
    ELSE LET matches == compare_faces(refs, enc, tolerance)
             face_distances == face_distance(refs, enc)
             best_match_index == argmin(face_distances)
         IN  IF matches[best_match_index] THEN best_match_index ELSE 0

\* Mutant: matches.index(True) instead of the argmin.
RegistryMatch_FirstMatch(refs, enc, threshold) ==
    IF \E i \in 1..Len(refs) : compare_faces(refs, enc, threshold)[i]
    THEN CHOOSE i \in 1..Len(refs) :
            /\ compare_faces(refs, enc, threshold)[i]
            /\ \A j \in 1..(i - 1) : ~compare_faces(refs, enc, threshold)[j]
    ELSE 0

\* Registry matcher of match_or_add_intruder: index of the accepted record,
\* 0 for no match.
RegistryMatch(refs, enc, threshold) ==
    IF Len(refs) = 0 THEN 0
    ELSE LET matches == compare_faces(refs, enc, threshold)
             face_distances == face_distance(refs, enc)
         IN  IF \E i \in 1..Len(refs) : matches[i]
             THEN argmin(face_distances) ELSE 0

\* load_known_face_encodings: the gender is the part after the first "__",
\* "unknown" when the label has no separator.
known_face_genders ==
    [i \in 1..Len(known_face_names) |->
        IF Len(known_face_names[i]) > 1 THEN known_face_names[i][2]
        ELSE "unknown"]

KnownLabels == {known_face_names[i] : i \in 1..Len(known_face_names)}

\* No known-face detection yet.
NoKnown == [cam |-> "none", label |-> Unknown, t |-> None, last_time |-> None,
            logged |-> FALSE]

EncList(records) == [i \in 1..Len(records) |-> records[i].enc]

\* ----------------------------------------------------------------- Init
InitShared ==
    /\ now = StartTime
    /\ last_unknown_capture_time = 0
    /\ debounce_lock = Free
    /\ db = <<>>
    /\ snapshots = {}
    /\ log = <<>>
    /\ sent = {}
    /\ face_encoding = [t \in Threads |-> None]
    /\ current_time_epoch = [t \in Threads |-> None]
    /\ intruder_id_for_event = [t \in Threads |-> None]
    /\ encodings = [t \in Threads |-> <<>>]
    /\ last_logged_times = [c \in Cameras |-> [l \in KnownLabels |-> None]]
    /\ last_known = NoKnown
    /\ gate_log = <<>>
    /\ event_log = <<>>
    /\ calls = <<>>
    /\ logging_lock = Free
    /\ full_path_for_new_capture = [c \in Cameras |-> NoImage]
    /\ email_threads = <<>>
    /\ event_steps = [c \in Cameras |-> <<>>]
    /\ join_timeouts = {}
    /\ fatal = {}
    /\ gui_pc = "idle"
    /\ alive_at_clear = {}
    /\ log_file = <<>>
    /\ log_calls = <<>>
    /\ formatted_entry = [t \in Callers |-> None]

\* Both cameras configured, checked and started; the supervisor waits at
\* line 120.
InitPipeline ==
    /\ InitShared
    /\ sup_pc = "wait"
    /\ sup_i = 1
    /\ available_cameras_inputs = <<"cam0", "cam1">>
    /\ final_active_camera_inputs = <<"cam0", "cam1">>
    /\ passed = {"cam0", "cam1"}

InitMatch ==
    /\ q_refs = <<>>
    /\ q_enc = 0
    /\ q_tol = 0
    /\ q_known = None
    /\ q_intruder = None

\* A session inside the face loop of its fourth frame: the reader has
\* delivered frames 1..4 and the recognition stage has taken each.
InitMidFrame ==
    /\ stop_event = FALSE
    /\ rpc = [c \in Cameras |-> "loop"]
    /\ acquired = [c \in Cameras |-> FRAME_SKIP]
    /\ rframe = [c \in Cameras |-> FRAME_SKIP]
    /\ internal_frame_queue = [c \in Cameras |-> <<>>]
    /\ frame_queue = [c \in Cameras |-> <<>>]
    /\ frame_counter = [c \in Cameras |-> FRAME_SKIP]
    /\ frame = [c \in Cameras |-> FRAME_SKIP]
    /\ face_count = [c \in Cameras |-> 1]
    /\ received = [c \in Cameras |-> [i \in 1..FRAME_SKIP |-> i]]
    /\ last_published = [c \in Cameras |-> NoFrame]
    /\ cap = [c \in Cameras |-> TRUE]
    /\ handles = [c \in Cameras |-> 1]
    /\ opens = [c \in Cameras |-> 1]

\* The sessions as start() leaves them (lines 28-50 and 113).
InitFresh ==
    /\ stop_event = FALSE
    /\ rpc = [c \in Cameras |-> "open"]
    /\ acquired = [c \in Cameras |-> 0]
    /\ rframe = [c \in Cameras |-> 0]
    /\ internal_frame_queue = [c \in Cameras |-> <<>>]
    /\ frame_queue = [c \in Cameras |-> <<>>]
    /\ frame_counter = [c \in Cameras |-> 0]
    /\ frame = [c \in Cameras |-> 0]
    /\ face_count = [c \in Cameras |-> None]
    /\ received = [c \in Cameras |-> <<>>]
    /\ last_published = [c \in Cameras |-> NoFrame]
    /\ cap = [c \in Cameras |-> FALSE]
    /\ handles = [c \in Cameras |-> 0]
    /\ opens = [c \in Cameras |-> 0]

Init ==
    /\ InitPipeline
    /\ InitMatch
    /\ InitMidFrame
    /\ pc = [t \in Threads |-> IF t \in Cameras THEN "face" ELSE "idle"]

\* The pipeline right after every session was started.
InitSessions ==
    /\ InitPipeline
    /\ InitMatch
    /\ InitFresh
    /\ pc = [t \in Threads |-> IF t \in Cameras THEN "top" ELSE "idle"]

\* The configurations of config.py: any list of distinct cameras.
Configs ==
    {<<>>} \cup {<<c>> : c \in Cameras}
           \cup {<<c, o>> : <<c, o>> \in {p \in Cameras \X Cameras : p[1] # p[2]}}

\* start_live_face_recognition is entered: nothing is checked yet and no
\* session exists.
InitStartup ==
    /\ InitShared
    /\ InitMatch
    /\ stop_event = FALSE
    /\ rpc = [c \in Cameras |-> "unstarted"]
    /\ acquired = [c \in Cameras |-> 0]
    /\ rframe = [c \in Cameras |-> 0]
    /\ internal_frame_queue = [c \in Cameras |-> <<>>]
    /\ frame_queue = [c \in Cameras |-> <<>>]
    /\ frame_counter = [c \in Cameras |-> 0]
    /\ frame = [c \in Cameras |-> 0]
    /\ face_count = [c \in Cameras |-> None]
    /\ received = [c \in Cameras |-> <<>>]
    /\ last_published = [c \in Cameras |-> NoFrame]
    /\ cap = [c \in Cameras |-> FALSE]
    /\ handles = [c \in Cameras |-> 0]
    /\ opens = [c \in Cameras |-> 0]
    /\ pc = [t \in Threads |-> IF t \in Cameras THEN "unstarted" ELSE "idle"]
    /\ sup_pc = "config"
    /\ sup_i = 1
    /\ available_cameras_inputs \in Configs
    /\ final_active_camera_inputs = <<>>
    /\ passed = {}

\* The face match engine on its own: any reference list, descriptor and
\* tolerance within the bounds.
RefLists == UNION {[1..n -> 0..MaxCoord] : n \in 0..MaxRefs}

InitEngine ==
    /\ InitPipeline
    /\ InitMidFrame
    /\ pc = [t \in Threads |-> IF t \in Cameras THEN "face" ELSE "idle"]
    /\ q_refs \in RefLists
    /\ q_enc \in 0..MaxCoord
    /\ q_tol \in 0..MaxTol
    /\ q_known = None
    /\ q_intruder = None

\* ---------------------------------------------------------------- clock
\* The clock never runs backwards: a reading t of the clock is at or after
\* the latest reading so far, which now holds.
ClockReads(t) == t >= now /\ now' = t

\* ------------------------------------------- recognition stage, per face
\* Lines 196-210: the label the catalog gives a face, "Unknown" by default.
CatalogIndex(enc) ==
    CatalogMatch(known_face_encodings, enc, RECOGNITION_TOLERANCE)

\* The catalog is fixed for the run, so the index is tabulated once per
\* input descriptor.
CatalogIndexOf == [enc \in FaceInputs |-> CatalogIndex(enc)]

recognized_name_with_gender(enc) ==
    IF CatalogIndexOf[enc] = 0 THEN Unknown
    ELSE known_face_names[CatalogIndexOf[enc]]

\* Line 209: the part of the label before the first "__".
recognized_person_name_only(label) == <<label[1]>>

\* Mutants of the known-identity gate: the boundary second is excluded; the
\* global unknown-face timestamp is consulted as well.
KnownGateOpen_Strict(last_time, t) ==
    last_time = None \/ t - last_time > KNOWN_FACE_LOG_DEBOUNCE_TIME

KnownGateOpen_Global(last_time, t) ==
    /\ last_time = None \/ t - last_time >= KNOWN_FACE_LOG_DEBOUNCE_TIME
    /\ t - last_unknown_capture_time >= UNKNOWN_CAPTURE_DEBOUNCE_TIME

\* Line 277: the per-session gate for a known identity.
KnownGateOpen(last_time, t) ==
    last_time = None \/ t - last_time >= KNOWN_FACE_LOG_DEBOUNCE_TIME

\* Mutant: one map shared by every session (a class attribute).
SetLastLogged_Shared(c, label, t) ==
    [cam \in Cameras |-> [last_logged_times[cam] EXCEPT ![label] = t]]

\* Line 280: self.last_logged_times[label] = current time.
SetLastLogged(c, label, t) ==
    [last_logged_times EXCEPT ![c][label] = t]

\* Mutant: the boundary second is excluded.
GateAllows_Strict(t, last) == t - last > UNKNOWN_CAPTURE_DEBOUNCE_TIME

\* Mutant: the gate measures the distance between the two times, whichever
\* is the later.
GateAllows_Distance(t, last) ==
    (IF t < last THEN last - t ELSE t - last) >= UNKNOWN_CAPTURE_DEBOUNCE_TIME

\* Line 228: the global gate for an unknown face.
GateAllows(t, last) == t - last >= UNKNOWN_CAPTURE_DEBOUNCE_TIME

\* Line 263: recognized_person_name_only = intruder_id_for_event.  Reading
\* the local while it is unbound raises UnboundLocalError outside every
\* try block, which ends the recognition thread.
AfterLabel(id) == IF id = None THEN "dead" ELSE "face"

\* The locals of one face are dead once the loop moves to the next face.
EndFace(c) ==
    /\ face_encoding' = [face_encoding EXCEPT ![c] = None]
    /\ current_time_epoch' = [current_time_epoch EXCEPT ![c] = None]
    /\ encodings' = [encodings EXCEPT ![c] = <<>>]

\* logging_manager.write_log_entry: one entry appended to the log file
\* under logging_lock; a missing image link is written as "N/A".
write_log_entry(name, gender, image_link) ==
    Append(log, [name |-> name, gender |-> gender,
                 image_link |-> IF image_link = NoImage THEN NotAvailable
                                ELSE image_link])

\* Lines 195-213 and 269-280 for a face the catalog recognises: the
\* per-session debounce decides whether a log entry (no image) is written.
RecognizeKnown(c, enc, t) ==
    LET label == recognized_name_with_gender(enc)
        last_time == last_logged_times[c][label]
    IN  /\ pc[c] = "face"
        /\ ClockReads(t)
        /\ label # Unknown
        /\ last_known' = [cam |-> c, label |-> label, t |-> t,
                          last_time |-> last_time,
                          logged |-> KnownGateOpen(last_time, t)]
        /\ IF KnownGateOpen(last_time, t)
           THEN /\ log' = write_log_entry(recognized_person_name_only(label),
                                          known_face_genders[CatalogIndexOf[enc]],
                                          NoImage)
                /\ last_logged_times' = SetLastLogged(c, label, t)
           ELSE UNCHANGED <<log, last_logged_times>>
        /\ UNCHANGED <<last_unknown_capture_time, debounce_lock, db,
                       snapshots, sent, pc, face_encoding, current_time_epoch,
                       intruder_id_for_event, encodings, gate_log, event_log,
                       calls>>
        /\ UNCHANGED <<matchVars, frameVars, ctlVars>>

\* Lines 195-220 for a face the catalog does not recognise: the clock is
\* sampled before the lock is requested.
RecognizeUnknown(c, enc, t) ==
    /\ pc[c] = "face"
    /\ ClockReads(t)
    /\ recognized_name_with_gender(enc) = Unknown
    /\ face_encoding' = [face_encoding EXCEPT ![c] = enc]
    /\ current_time_epoch' = [current_time_epoch EXCEPT ![c] = t]
    /\ pc' = [pc EXCEPT ![c] = "lock"]
    /\ UNCHANGED <<last_unknown_capture_time, debounce_lock, db, snapshots,
                   log, sent, intruder_id_for_event, encodings,
                   last_logged_times, last_known, gate_log, event_log, calls>>
    /\ UNCHANGED <<matchVars, frameVars, ctlVars>>

\* Line 227: with _unknown_capture_debounce_lock.
AcquireLock(c) ==
    /\ pc[c] = "lock"
    /\ debounce_lock = Free
    /\ debounce_lock' = c
    /\ pc' = [pc EXCEPT ![c] = "gate"]
    /\ UNCHANGED <<now, last_unknown_capture_time, db, snapshots, log, sent,
                   face_encoding, current_time_epoch, intruder_id_for_event,
                   encodings, last_logged_times, last_known, gate_log, event_log, calls>>
    /\ UNCHANGED <<matchVars, frameVars, ctlVars>>

\* Mutant: the grant forgets to store its timestamp.
NextStamp_NoUpdate(granted, t, last) == last

\* Line 229: the shared timestamp after the compare-and-update.
NextStamp(granted, t, last) == IF granted THEN t ELSE last

\* Mutant: the event runs whatever the gate decided.
AfterGate_Always(granted, id) == "event"

\* Lines 234 and 263: a granted detection goes on to the full event, a
\* denied one straight to the label.
AfterGate(granted, id) == IF granted THEN "event" ELSE AfterLabel(id)

\* Mutant: the lock stays with the session through the rest of the face.
ReleaseAfterGate_Hold(holder) == holder

\* Line 233: the with block of line 227 ends and the mutex is released.
ReleaseAfterGate(holder) == Free

\* Lines 228-232 and the release of the lock; on a denial lines 234-269
\* follow at once (no event, then the label of line 263).
GateCheck(c) ==
    LET t == current_time_epoch[c]
        granted == GateAllows(t, last_unknown_capture_time)
    IN  /\ pc[c] = "gate"
        /\ debounce_lock = c
        /\ debounce_lock' = ReleaseAfterGate(c)
        /\ gate_log' = Append(gate_log, [t |-> t, granted |-> granted])
        /\ last_unknown_capture_time' =
               NextStamp(granted, t, last_unknown_capture_time)
        /\ pc' = [pc EXCEPT ![c] = AfterGate(granted, intruder_id_for_event[c])]
        /\ IF granted
           THEN UNCHANGED <<face_encoding, current_time_epoch, encodings>>
           ELSE EndFace(c)
        /\ UNCHANGED <<now, db, snapshots, log, sent, intruder_id_for_event,
                       last_logged_times, last_known, event_log, calls>>
        /\ UNCHANGED <<matchVars, frameVars, ctlVars>>

\* ------------------------------------------------- match_or_add_intruder
\* Mutant: the count of the loaded list is used as it is.
new_intruder_id_Len(ids) == Len(ids)

\* Line 72: the next sequential id, from the length of the loaded list.
new_intruder_id(ids) == Len(ids) + 1

\* One step of a full event, as the history records it.
Step(s, id, path) == [step |-> s, id |-> id, path |-> path]

\* A full event begins: no step of it is done yet.
NoSteps(t) ==
    event_steps' = IF t \in Cameras THEN [event_steps EXCEPT ![t] = <<>>]
                   ELSE event_steps

\* Where match_or_add_intruder returns to: line 238 of the recognition
\* stage, or the driver.
Return(t, id) ==
    IF t \in Cameras
    THEN /\ intruder_id_for_event' = [intruder_id_for_event EXCEPT ![t] = id]
         /\ pc' = [pc EXCEPT ![t] = "capture"]
         /\ event_steps' = [event_steps EXCEPT ![t] =
                <<Step("resolve", id, NoImage)>>]
         /\ UNCHANGED <<calls, face_encoding>>
    ELSE /\ calls' = Append(calls, [enc |-> face_encoding'[t], id |-> id])
         /\ pc' = [pc EXCEPT ![t] = "idle"]
         /\ UNCHANGED <<intruder_id_for_event, event_steps>>

\* Mutant: a matched descriptor is saved again like a new one.
load_and_match_Resave(t, new_encoding) ==
    /\ encodings' = [encodings EXCEPT ![t] =
           IF RegistryMatch(EncList(db), new_encoding, RECOGNITION_TOLERANCE) # 0
           THEN db
           ELSE Append(db, [enc |-> new_encoding, id |-> new_intruder_id(db)])]
    /\ pc' = [pc EXCEPT ![t] = "save_open"]
    /\ NoSteps(t)
    /\ UNCHANGED <<intruder_id_for_event, calls>>

\* Lines 55-74: load the registry, match, and either return the matched id
\* or append the new record to the loaded lists.
load_and_match(t, new_encoding) ==
    LET best_match_index ==
            RegistryMatch(EncList(db), new_encoding, RECOGNITION_TOLERANCE)
    IN  IF best_match_index # 0
        THEN /\ Return(t, db[best_match_index].id)
             /\ UNCHANGED encodings
        ELSE /\ encodings' = [encodings EXCEPT ![t] =
                    Append(db, [enc |-> new_encoding, id |-> new_intruder_id(db)])]
             /\ pc' = [pc EXCEPT ![t] = "save_open"]
             /\ NoSteps(t)
             /\ UNCHANGED <<intruder_id_for_event, calls>>

\* Line 38: open(INTRUDER_ENCODINGS_FILE, "wb") truncates the file; a load
\* of the empty file ends in EOFError, which load_intruder_db turns into
\* the empty registry.
SaveOpen(t) ==
    /\ pc[t] = "save_open"
    /\ db' = <<>>
    /\ pc' = [pc EXCEPT ![t] = "save_dump"]
    /\ UNCHANGED <<now, last_unknown_capture_time, debounce_lock, snapshots, log,
                   sent, face_encoding, current_time_epoch,
                   intruder_id_for_event, encodings, last_logged_times, last_known,
                   gate_log, event_log, calls>>
    /\ UNCHANGED <<matchVars, frameVars, ctlVars>>

\* Mutant: the file is opened for appending rather than writing.
SaveDump_Append(t) ==
    /\ pc[t] = "save_dump"
    /\ db' = db \o encodings[t]
    /\ encodings' = [encodings EXCEPT ![t] = <<>>]
    /\ face_encoding' = face_encoding
    /\ Return(t, encodings[t][Len(encodings[t])].id)
    /\ UNCHANGED <<now, last_unknown_capture_time, debounce_lock, snapshots, log,
                   sent, current_time_epoch, last_logged_times, last_known, gate_log,
                   event_log>>
    /\ UNCHANGED <<matchVars, frameVars, capVars, eventVars, supVars, runVars, fatal>>

\* Lines 39-40 and 77-79: the whole loaded-and-appended list replaces the
\* file's content, and the new id is returned.
SaveDump(t) ==
    /\ pc[t] = "save_dump"
    /\ db' = encodings[t]
    /\ encodings' = [encodings EXCEPT ![t] = <<>>]
    /\ face_encoding' = face_encoding
    /\ Return(t, encodings[t][Len(encodings[t])].id)
    /\ UNCHANGED <<now, last_unknown_capture_time, debounce_lock, snapshots, log,
                   sent, current_time_epoch, last_logged_times, last_known, gate_log,
                   event_log>>
    /\ UNCHANGED <<matchVars, frameVars, capVars, eventVars, supVars, runVars, fatal>>

\* --------------------------------------------------------- manual_delete
\* What the script leaves alone.
deleteFrame == <<now, last_unknown_capture_time, debounce_lock, snapshots,
                 log, sent, face_encoding, current_time_epoch,
                 intruder_id_for_event, last_logged_times, last_known,
                 gate_log, event_log, calls, matchVars, frameVars, ctlVars>>

\* manual_delete.py lines 33-40: the records whose name is not the one to
\* delete, in their order.
filtered(records, name_to_delete) ==
    SelectSeq(records, LAMBDA r : r.id # name_to_delete)

\* manual_delete.py lines 8-24: the script loads the registry and lists its
\* names; with no name registered it exits.
DeleteLoad(t) ==
    /\ pc[t] = "idle"
    /\ db # <<>>
    /\ encodings' = [encodings EXCEPT ![t] = db]
    /\ pc' = [pc EXCEPT ![t] = "del_input"]
    /\ UNCHANGED db
    /\ UNCHANGED deleteFrame

\* Lines 26-40: the name typed in is looked up in the loaded list (an
\* unknown name ends the script) and its records are filtered out.
DeleteInput(t, name_to_delete) ==
    /\ pc[t] = "del_input"
    /\ IF \E i \in 1..Len(encodings[t]) : encodings[t][i].id = name_to_delete
       THEN /\ encodings' = [encodings EXCEPT ![t] =
                   filtered(@, name_to_delete)]
            /\ pc' = [pc EXCEPT ![t] = "del_open"]
       ELSE /\ encodings' = [encodings EXCEPT ![t] = <<>>]
            /\ pc' = [pc EXCEPT ![t] = "idle"]
    /\ UNCHANGED db
    /\ UNCHANGED deleteFrame

\* Line 43: open(encoding_file, "wb") truncates the file.
DeleteOpen(t) ==
    /\ pc[t] = "del_open"
    /\ db' = <<>>
    /\ pc' = [pc EXCEPT ![t] = "del_dump"]
    /\ UNCHANGED encodings
    /\ UNCHANGED deleteFrame

\* Line 44: the filtered lists replace the file's content.
DeleteDump(t) ==
    /\ pc[t] = "del_dump"
    /\ db' = encodings[t]
    /\ encodings' = [encodings EXCEPT ![t] = <<>>]
    /\ pc' = [pc EXCEPT ![t] = "idle"]
    /\ UNCHANGED deleteFrame

\* ---------------------------------------------------- full intruder event
\* Lines 234-238: the event starts, at time t, with the call of
\* match_or_add_intruder.
StartEvent(c, t) ==
    /\ pc[c] = "event"
    /\ ClockReads(t)
    /\ event_log' = Append(event_log,
            [stamp |-> current_time_epoch[c], start |-> t])
    /\ face_encoding' = face_encoding
    /\ load_and_match(c, face_encoding[c])
    /\ UNCHANGED <<last_unknown_capture_time, debounce_lock, db, snapshots,
                   log, sent, current_time_epoch, last_logged_times, last_known, gate_log>>
    /\ UNCHANGED <<matchVars, frameVars, capVars, eventVars, supVars, runVars, fatal>>

\* Lines 243-245: the path of a new snapshot, named from the microsecond
\* clock: a fresh name for every capture.
NewCapturePath == <<"intruders", Cardinality(snapshots) + 1>>

\* Lines 241-269: the snapshot is written under a name made from the
\* microsecond clock (a fresh name for every capture: the n-th snapshot of
\* the folder is <<"intruders", n>>), the log entry carries that path, the
\* notification is handed to a detached thread, and the face is labelled
\* with the event's id.  An exception in a step (failed_step) is caught at
\* line 259 and skips the steps after it.
FinishEvent(c, failed_step) ==
    LET new_path == NewCapturePath
    IN  /\ pc[c] = "capture"
        /\ IF failed_step = "capture"
           THEN UNCHANGED <<snapshots, log>>
           ELSE /\ snapshots' = snapshots \cup {new_path}
                /\ log' = write_log_entry(<<"Intruder", intruder_id_for_event[c]>>,
                                          "Intruder", new_path)
        /\ IF failed_step = "none"
           THEN sent' = sent \cup {[image_path |-> new_path,
                                    camera_id |-> c]}
           ELSE UNCHANGED sent
        /\ event_steps' = [event_steps EXCEPT ![c] = @ \o
               (IF failed_step = "capture" THEN <<>>
                ELSE <<Step("snapshot", None, new_path),
                       Step("log", intruder_id_for_event[c],
                            new_path)>>) \o
               (IF failed_step = "none"
                THEN <<Step("notify", None, new_path)>>
                ELSE <<>>)]
        /\ pc' = [pc EXCEPT ![c] = AfterLabel(intruder_id_for_event[c])]
        /\ EndFace(c)
        /\ UNCHANGED <<now, last_unknown_capture_time, debounce_lock, db,
                       intruder_id_for_event, last_logged_times, last_known, gate_log,
                       event_log, calls>>
        /\ UNCHANGED <<matchVars, frameVars, capVars, eventVars, supVars, runVars, fatal>>

\* Lines 259-269 for an exception inside match_or_add_intruder (the open
\* or the dump of save_intruder_db fails): the event is skipped and the
\* face is labelled from the local.  A failed dump leaves the file
\* truncated.
ResolveFail(c) ==
    /\ pc[c] \in {"save_open", "save_dump"}
    /\ pc' = [pc EXCEPT ![c] = AfterLabel(intruder_id_for_event[c])]
    /\ EndFace(c)
    /\ UNCHANGED <<now, last_unknown_capture_time, debounce_lock, db, snapshots,
                   log, sent, intruder_id_for_event, last_logged_times, last_known,
                   gate_log, event_log, calls>>
    /\ UNCHANGED <<matchVars, frameVars, ctlVars>>

\* ---------------------------------- full intruder event, step by step
\* Lines 243-245: the snapshot of an event is named from the clock; the
\* time stamp of the event stands for that name.
EventPath(c) == <<"intruders", current_time_epoch[c]>>

\* Mutant: the event goes on after an exception of the capture.
AfterCapture_GoOn(outcome) == "log"

\* Lines 247-251 and 259: after cv2.imwrite returned, the log entry is
\* next; an exception goes to the handler, past the rest of the event.
AfterCapture(outcome) == IF outcome = "raised" THEN "label" ELSE "log"

\* Lines 241-248: the name is made and cv2.imwrite is called.  The file is
\* written, or imwrite returns False without writing (the return value is
\* not looked at), or it raises and the handler of line 259 takes over.
CaptureStep(c, outcome) ==
    /\ pc[c] = "capture"
    /\ full_path_for_new_capture' =
           [full_path_for_new_capture EXCEPT ![c] = EventPath(c)]
    /\ IF outcome = "written"
       THEN /\ snapshots' = snapshots \cup {EventPath(c)}
            /\ event_steps' = [event_steps EXCEPT ![c] =
                   Append(@, Step("snapshot", None, EventPath(c)))]
       ELSE /\ UNCHANGED snapshots
            /\ event_steps' = [event_steps EXCEPT ![c] =
                   IF outcome = "not_written"
                   THEN Append(@, Step("not_written", None, EventPath(c)))
                   ELSE @]
    /\ pc' = [pc EXCEPT ![c] = AfterCapture(outcome)]
    /\ UNCHANGED <<now, last_unknown_capture_time, debounce_lock, db, log,
                   sent, face_encoding, current_time_epoch,
                   intruder_id_for_event, encodings, last_logged_times,
                   last_known, gate_log, event_log, calls>>
    /\ UNCHANGED <<logging_lock, email_threads>>
    /\ UNCHANGED <<matchVars, frameVars, capVars, supVars, runVars, fatal>>

\* Mutant: the lock is given to whoever asks.
lock_free_Always(holder) == TRUE

\* threading.Lock: the lock is acquired only while nobody holds it.
lock_free(holder) == holder = Free

\* logging_manager.py line 67: with logging_lock.
LogAcquire(c) ==
    /\ pc[c] = "log"
    /\ lock_free(logging_lock)
    /\ logging_lock' = c
    /\ pc' = [pc EXCEPT ![c] = "log_write"]
    /\ UNCHANGED <<full_path_for_new_capture, email_threads>>
    /\ UNCHANGED <<sideVars, matchVars, frameVars, capVars, event_steps,
                   supVars, runVars, fatal>>

\* logging_manager.py lines 68-75: the entry is appended; an exception of
\* the open or the write is caught inside write_log_entry, which returns
\* normally either way and releases the lock.
LogWrite(c, appended) ==
    /\ pc[c] = "log_write"
    /\ logging_lock = c
    /\ logging_lock' = Free
    /\ IF appended
       THEN /\ log' = write_log_entry(<<"Intruder", intruder_id_for_event[c]>>,
                                      "Intruder", full_path_for_new_capture[c])
            /\ event_steps' = [event_steps EXCEPT ![c] =
                   Append(@, Step("log", intruder_id_for_event[c],
                                  full_path_for_new_capture[c]))]
       ELSE UNCHANGED <<log, event_steps>>
    /\ pc' = [pc EXCEPT ![c] = "notify"]
    /\ UNCHANGED <<now, last_unknown_capture_time, debounce_lock, db,
                   snapshots, sent, face_encoding, current_time_epoch,
                   intruder_id_for_event, encodings, last_logged_times,
                   last_known, gate_log, event_log, calls>>
    /\ UNCHANGED <<full_path_for_new_capture, email_threads>>
    /\ UNCHANGED <<matchVars, frameVars, capVars, supVars, runVars, fatal>>

\* Lines 254-257 and email_sender.py lines 91-104: send_alert_in_thread
\* starts a daemon thread for the send and returns; if the thread cannot
\* be started the exception goes to the handler of line 259.
Dispatch(c, started) ==
    /\ pc[c] = "notify"
    /\ IF started
       THEN /\ sent' = sent \cup {[image_path |-> full_path_for_new_capture[c],
                                    camera_id |-> c]}
            /\ email_threads' = Append(email_threads,
                   [image_path |-> full_path_for_new_capture[c],
                    camera_id |-> c, state |-> "running", attempts |-> 0])
            /\ event_steps' = [event_steps EXCEPT ![c] =
                   Append(@, Step("notify", None,
                                  full_path_for_new_capture[c]))]
       ELSE UNCHANGED <<sent, email_threads, event_steps>>
    /\ pc' = [pc EXCEPT ![c] = "label"]
    /\ UNCHANGED <<now, last_unknown_capture_time, debounce_lock, db,
                   snapshots, log, face_encoding, current_time_epoch,
                   intruder_id_for_event, encodings, last_logged_times,
                   last_known, gate_log, event_log, calls>>
    /\ UNCHANGED <<logging_lock, full_path_for_new_capture>>
    /\ UNCHANGED <<matchVars, frameVars, capVars, supVars, runVars, fatal>>

\* ------------------------------- write_log_entry, from concurrent writers
\* What a writer of the log leaves alone.
writerFrame == <<now, last_unknown_capture_time, debounce_lock, db, snapshots,
                 sent, face_encoding, current_time_epoch,
                 intruder_id_for_event, encodings, last_logged_times,
                 last_known, gate_log, event_log, calls, matchVars,
                 frameVars, capVars, full_path_for_new_capture,
                 email_threads, event_steps, supVars, startVars, guiVars,
                 fatal>>

\* One piece of a line in the file: the first piece, or the rest of the
\* line with its newline.
Piece(entry, part) == [entry |-> entry, part |-> part]

\* logging_manager.py lines 51-65 (and the writers of lines 120-133):
\* write_log_entry is called and formats its entry; the history numbers
\* the calls.
WriterCall(t, name) ==
    /\ pc[t] = "idle"
    /\ formatted_entry' = [formatted_entry EXCEPT ![t] = Len(log_calls) + 1]
    /\ log_calls' = Append(log_calls,
           [caller |-> t, name |-> name, outcome |-> "pending"])
    /\ pc' = [pc EXCEPT ![t] = "w_lock"]
    /\ UNCHANGED <<log, log_file, logging_lock>>
    /\ UNCHANGED writerFrame

\* Line 67: with logging_lock.
WriterAcquire(t) ==
    /\ pc[t] = "w_lock"
    /\ lock_free(logging_lock)
    /\ logging_lock' = t
    /\ pc' = [pc EXCEPT ![t] = "w_open"]
    /\ UNCHANGED <<log, logVars>>
    /\ UNCHANGED writerFrame

\* Lines 69-70 and 74-75: the file is opened for appending; an exception
\* is caught, reported, and the call returns, releasing the lock.
WriterOpen(t, opened) ==
    /\ pc[t] = "w_open"
    /\ IF opened
       THEN /\ pc' = [pc EXCEPT ![t] = "w_write"]
            /\ UNCHANGED <<logging_lock, log_calls>>
       ELSE /\ pc' = [pc EXCEPT ![t] = "idle"]
            /\ logging_lock' = Free
            /\ log_calls' = [log_calls EXCEPT
                   ![formatted_entry[t]].outcome = "failed"]
    /\ UNCHANGED <<log, log_file, formatted_entry>>
    /\ UNCHANGED writerFrame

\* Line 71: log_file.write(formatted_entry): the line starts to reach the
\* file.
WriterWrite(t) ==
    /\ pc[t] = "w_write"
    /\ log_file' = Append(log_file, Piece(formatted_entry[t], 1))
    /\ pc' = [pc EXCEPT ![t] = "w_flush"]
    /\ UNCHANGED <<log, logging_lock, log_calls, formatted_entry>>
    /\ UNCHANGED writerFrame

\* Lines 72-73: flush() and the close of the file put the rest of the
\* line there; the with block ends and the lock is released.
WriterFlush(t) ==
    /\ pc[t] = "w_flush"
    /\ log_file' = Append(log_file, Piece(formatted_entry[t], 2))
    /\ log' = write_log_entry(log_calls[formatted_entry[t]].name,
                              "unknown", NoImage)
    /\ logging_lock' = Free
    /\ log_calls' = [log_calls EXCEPT ![formatted_entry[t]].outcome = "ok"]
    /\ pc' = [pc EXCEPT ![t] = "idle"]
    /\ UNCHANGED formatted_entry
    /\ UNCHANGED writerFrame

\* Lines 259-269: the event is over, whichever way, and the face gets its
\* label.
LabelStep(c) ==
    /\ pc[c] = "label"
    /\ pc' = [pc EXCEPT ![c] = AfterLabel(intruder_id_for_event[c])]
    /\ EndFace(c)
    /\ UNCHANGED <<now, last_unknown_capture_time, debounce_lock, db,
                   snapshots, log, sent, intruder_id_for_event,
                   last_logged_times, last_known, gate_log, event_log, calls>>
    /\ UNCHANGED <<matchVars, frameVars, ctlVars>>

\* Mutant: a failed send is tried again.
send_result_Retry(delivered) == IF delivered THEN "sent" ELSE "running"

\* email_sender.py lines 67-89: _send_email_actual returns True after the
\* send, False after any exception, and the thread ends.
send_result(delivered) == IF delivered THEN "sent" ELSE "failed"

\* email_sender.py lines 16-89: the detached thread makes its one attempt.
EmailSend(i, delivered) ==
    /\ email_threads[i].state = "running"
    /\ email_threads' = [email_threads EXCEPT
           ![i].state = send_result(delivered),
           ![i].attempts = @ + 1]
    /\ UNCHANGED <<logging_lock, full_path_for_new_capture>>
    /\ UNCHANGED <<pc, sideVars, matchVars, frameVars, capVars, event_steps,
                   supVars, runVars, fatal>>

\* ------------------------------------------------------ registry drivers
\* A driver calls match_or_add_intruder(enc) directly.
DirectCall(t, enc) ==
    /\ pc[t] = "idle"
    /\ face_encoding' = [face_encoding EXCEPT ![t] = enc]
    /\ load_and_match(t, enc)
    /\ UNCHANGED <<now, last_unknown_capture_time, debounce_lock, db, snapshots,
                   log, sent, current_time_epoch, last_logged_times, last_known, gate_log,
                   event_log>>
    /\ UNCHANGED <<matchVars, frameVars, capVars, eventVars, supVars, runVars, fatal>>

\* ------------------------------------------------------ acquisition stage
\* Mutant: release() leaves the handle open.
ReleaseHandles_Leak(isOpened, n) == n

\* cv2.VideoCapture.release (lines 77 and 103): the handle of self.cap is
\* closed if it is open.
ReleaseHandles(isOpened, n) == IF isOpened THEN n - 1 ELSE n

\* cv2.VideoCapture(self.camera_input) (lines 59 and 79): one more handle
\* is open if the source could be opened.
OpenHandles(opened, n) == IF opened THEN n + 1 ELSE n

\* Mutant: a source that cannot be opened is not reported.
FlagAfterOpen_Keep(flag, opened) == flag

\* Lines 61-63 and 80-82: the stop flag is set if the capture is not open.
FlagAfterOpen(flag, opened) == flag \/ ~opened

\* Lines 59-64: the capture source is opened; a failed open sets the stop
\* flag and ends the thread.
ReaderOpen(c, opened) ==
    /\ rpc[c] = "open"
    /\ rpc' = [rpc EXCEPT ![c] = IF opened THEN "loop" ELSE "exited"]
    /\ stop_event' = FlagAfterOpen(stop_event, opened)
    /\ cap' = [cap EXCEPT ![c] = opened]
    /\ handles' = [handles EXCEPT ![c] = OpenHandles(opened, @)]
    /\ opens' = [opens EXCEPT ![c] = OpenHandles(opened, @)]
    /\ fatal' = IF opened THEN fatal ELSE fatal \cup {c}
    /\ UNCHANGED <<acquired, rframe, internal_frame_queue, frame_queue,
                   frame_counter, frame, face_count, received, last_published>>
    /\ UNCHANGED <<pc, sideVars, matchVars, eventVars, event_steps, supVars, runVars>>

\* Mutant: the loop goes on whatever the flag says.
AfterLoopTest_Ignore(flag, body) == body

\* Lines 73 and 115-118: while not self.stop_event.is_set(): the body of
\* the loop is entered unless the flag is set, and then the loop ends.
AfterLoopTest(flag, body) == IF flag THEN "exited" ELSE body

\* Lines 73 and 102-103: the loop test; once the flag is set the loop ends
\* and the capture is released.
ReaderLoop(c) ==
    /\ rpc[c] = "loop"
    /\ rpc' = [rpc EXCEPT ![c] = AfterLoopTest(stop_event, "read")]
    /\ IF stop_event
       THEN /\ handles' = [handles EXCEPT ![c] = ReleaseHandles(cap[c], @)]
            /\ cap' = [cap EXCEPT ![c] = FALSE]
       ELSE UNCHANGED <<cap, handles>>
    /\ UNCHANGED <<opens, fatal>>
    /\ UNCHANGED <<stop_event, acquired, rframe, internal_frame_queue,
                   frame_queue, frame_counter, frame, face_count, received,
                   last_published>>
    /\ UNCHANGED <<pc, sideVars, matchVars, eventVars, event_steps, supVars, runVars>>

\* Line 74 with ret true: the next frame of the source.
ReaderRead(c) ==
    /\ rpc[c] = "read"
    /\ acquired' = [acquired EXCEPT ![c] = @ + 1]
    /\ rframe' = [rframe EXCEPT ![c] = acquired[c] + 1]
    /\ rpc' = [rpc EXCEPT ![c] = "check"]
    /\ UNCHANGED <<stop_event, internal_frame_queue, frame_queue,
                   frame_counter, frame, face_count, received, last_published>>
    /\ UNCHANGED <<pc, sideVars, matchVars, ctlVars>>

\* Lines 75-88, ret false: the source is released and reopened; a failed
\* reopen sets the stop flag and leaves the loop, and the release of line
\* 103 finds no open capture.
ReaderReadFail(c, reopened) ==
    /\ rpc[c] = "read"
    /\ rpc' = [rpc EXCEPT ![c] = IF reopened THEN "loop" ELSE "exited"]
    /\ stop_event' = FlagAfterOpen(stop_event, reopened)
    /\ cap' = [cap EXCEPT ![c] = reopened]
    /\ handles' = [handles EXCEPT ![c] =
           OpenHandles(reopened, ReleaseHandles(cap[c], @))]
    /\ opens' = [opens EXCEPT ![c] = OpenHandles(reopened, @)]
    /\ fatal' = IF reopened THEN fatal ELSE fatal \cup {c}
    /\ UNCHANGED <<acquired, rframe, internal_frame_queue, frame_queue,
                   frame_counter, frame, face_count, received, last_published>>
    /\ UNCHANGED <<pc, sideVars, matchVars, eventVars, event_steps, supVars, runVars>>

\* Mutant: the waiting frame is never evicted.
NeedsEvict_Never(q) == FALSE

\* Line 91: not self.internal_frame_queue.empty().
NeedsEvict(q) == q # <<>>

ReaderCheck(c) ==
    /\ rpc[c] = "check"
    /\ rpc' = [rpc EXCEPT ![c] =
           IF NeedsEvict(internal_frame_queue[c]) THEN "evict" ELSE "put"]
    /\ UNCHANGED <<stop_event, acquired, rframe, internal_frame_queue,
                   frame_queue, frame_counter, frame, face_count, received,
                   last_published>>
    /\ UNCHANGED <<pc, sideVars, matchVars, ctlVars>>

\* Line 92: get_nowait() takes the waiting frame; on a queue the
\* recognition stage has emptied meanwhile it raises queue.Empty, which
\* the handler of line 97 catches, and line 93 is skipped.
ReaderEvict(c) ==
    /\ rpc[c] = "evict"
    /\ IF internal_frame_queue[c] # <<>>
       THEN /\ internal_frame_queue' =
                   [internal_frame_queue EXCEPT ![c] = Tail(@)]
            /\ rpc' = [rpc EXCEPT ![c] = "put"]
       ELSE /\ rpc' = [rpc EXCEPT ![c] = "sleep"]
            /\ UNCHANGED internal_frame_queue
    /\ UNCHANGED <<stop_event, acquired, rframe, frame_queue, frame_counter,
                   frame, face_count, received, last_published>>
    /\ UNCHANGED <<pc, sideVars, matchVars, ctlVars>>

\* Queue.put_nowait on a queue of maxsize 1: the item is appended, or
\* queue.Full is raised and the queue stays as it is.
put_nowait(q, item) == IF Len(q) < QUEUE_MAXSIZE THEN Append(q, item) ELSE q

\* Lines 93-96.
ReaderPut(c) ==
    /\ rpc[c] = "put"
    /\ internal_frame_queue' = [internal_frame_queue EXCEPT ![c] =
           put_nowait(@, rframe[c])]
    /\ rpc' = [rpc EXCEPT ![c] = "sleep"]
    /\ UNCHANGED <<stop_event, acquired, rframe, frame_queue, frame_counter,
                   frame, face_count, received, last_published>>
    /\ UNCHANGED <<pc, sideVars, matchVars, ctlVars>>

\* Line 100: the iteration ends.
ReaderSleep(c) ==
    /\ rpc[c] = "sleep"
    /\ rpc' = [rpc EXCEPT ![c] = "loop"]
    /\ UNCHANGED <<stop_event, acquired, rframe, internal_frame_queue,
                   frame_queue, frame_counter, frame, face_count, received,
                   last_published>>
    /\ UNCHANGED <<pc, sideVars, matchVars, ctlVars>>

\* ------------------------------------------------------ recognition stage
\* Queue.put_nowait of the output queue (lines 149, 182, 309): the frame is
\* offered; queue.Full is swallowed and the frame dropped.
Publish(c, item) ==
    /\ frame_queue' = [frame_queue EXCEPT ![c] = put_nowait(@, item)]
    /\ last_published' = [last_published EXCEPT ![c] = item]

\* Lines 115-118: the loop test.
ProcTop(c) ==
    /\ pc[c] = "top"
    /\ pc' = [pc EXCEPT ![c] = AfterLoopTest(stop_event, "get")]
    /\ UNCHANGED <<sideVars, matchVars, frameVars, ctlVars>>

\* Lines 122-125: the get times out on an empty queue.
GetTimeout(c) ==
    /\ pc[c] = "get"
    /\ internal_frame_queue[c] = <<>>
    /\ pc' = [pc EXCEPT ![c] = "top"]
    /\ UNCHANGED <<sideVars, matchVars, frameVars, ctlVars>>

\* Mutant: the frame is read but left in the queue.
dequeue_Peek(q) == q

\* Queue.get: the queue after its head was taken.
dequeue(q) == Tail(q)

\* Line 138: process_this_frame = (frame_counter % 4 == 0).
process_this_frame(counter) == counter % FRAME_SKIP = 0

\* Lines 122 and 136-142: a frame is taken and counted; a frame that is
\* not processed goes straight to lines 308-312, unmodified.
GetFrame(c) ==
    LET f == Head(internal_frame_queue[c])
        n == frame_counter[c] + 1
    IN  /\ pc[c] = "get"
        /\ internal_frame_queue[c] # <<>>
        /\ internal_frame_queue' =
               [internal_frame_queue EXCEPT ![c] = dequeue(@)]
        /\ frame' = [frame EXCEPT ![c] = f]
        /\ frame_counter' = [frame_counter EXCEPT ![c] = n]
        /\ received' = [received EXCEPT ![c] = Append(@, f)]
        /\ IF process_this_frame(n)
           THEN /\ pc' = [pc EXCEPT ![c] = "detect"]
                /\ UNCHANGED <<frame_queue, last_published>>
           ELSE /\ pc' = [pc EXCEPT ![c] = "top"]
                /\ Publish(c, [frame |-> f, overlay |-> FALSE])
        /\ UNCHANGED <<stop_event, rpc, acquired, rframe, face_count>>
        /\ UNCHANGED <<sideVars, matchVars, ctlVars>>

\* Mutant: a frame with exactly the ceiling is rejected too.
TooManyFaces_Inclusive(n) == n >= MAX_REASONABLE_FACES

\* Line 161: len(face_locations) > MAX_REASONABLE_FACES.
TooManyFaces(n) == n > MAX_REASONABLE_FACES

\* Mutant: the exception handler forgets the stop flag.
DetectErrorFlag_Keep(flag) == flag

\* Line 180: self.stop_event.set().
DetectErrorFlag(flag) == TRUE

\* Lines 143-190 and, for a frame without faces, 192-312.  The frame is
\* invalid after the resize (146-153), detection or encoding raises
\* (178-186), or detection reports n faces: more than the ceiling drops
\* the frame (161-164); otherwise the stop flag is tested (188-190) and
\* the faces are resolved one by one, a frame without faces being
\* published at once with the banner.
Detect(c, outcome, n) ==
    /\ pc[c] = "detect"
    /\ CASE outcome = "invalid" ->
              /\ Publish(c, [frame |-> frame[c], overlay |-> FALSE])
              /\ pc' = [pc EXCEPT ![c] = "top"]
              /\ face_count' = [face_count EXCEPT ![c] = None]
              /\ UNCHANGED stop_event
         [] outcome = "error" ->
              /\ stop_event' = DetectErrorFlag(stop_event)
              /\ Publish(c, [frame |-> frame[c], overlay |-> FALSE])
              /\ pc' = [pc EXCEPT ![c] = "exited"]
              /\ face_count' = [face_count EXCEPT ![c] = None]
         [] outcome = "faces" ->
              /\ face_count' = [face_count EXCEPT ![c] = n]
              /\ UNCHANGED stop_event
              /\ IF TooManyFaces(n)
                 THEN /\ pc' = [pc EXCEPT ![c] = "top"]
                      /\ UNCHANGED <<frame_queue, last_published>>
                 ELSE IF stop_event
                 THEN /\ pc' = [pc EXCEPT ![c] = "exited"]
                      /\ UNCHANGED <<frame_queue, last_published>>
                 ELSE IF n = 0
                 THEN /\ pc' = [pc EXCEPT ![c] = "top"]
                      /\ Publish(c, [frame |-> frame[c], overlay |-> TRUE])
                 ELSE /\ pc' = [pc EXCEPT ![c] = "face"]
                      /\ UNCHANGED <<frame_queue, last_published>>
    /\ UNCHANGED <<rpc, acquired, rframe, internal_frame_queue, frame_counter,
                   frame, received>>
    /\ fatal' = IF outcome = "error" THEN fatal \cup {c} ELSE fatal
    /\ UNCHANGED <<sideVars, matchVars, capVars, eventVars, event_steps,
                   supVars, runVars>>

\* Lines 285-312 after the last face of the frame: the boxes are drawn and
\* the annotated frame is offered to the output queue.
EndFrame(c) ==
    /\ pc[c] = "face"
    /\ Publish(c, [frame |-> frame[c], overlay |-> TRUE])
    /\ pc' = [pc EXCEPT ![c] = "top"]
    /\ UNCHANGED <<stop_event, rpc, acquired, rframe, internal_frame_queue,
                   frame_counter, frame, face_count, received>>
    /\ UNCHANGED <<sideVars, matchVars, ctlVars>>

\* The display timer of the collaborator takes the waiting output frame.
DisplayTake(c) ==
    /\ frame_queue[c] # <<>>
    /\ frame_queue' = [frame_queue EXCEPT ![c] = Tail(@)]
    /\ UNCHANGED <<stop_event, rpc, acquired, rframe, internal_frame_queue,
                   frame_counter, frame, face_count, received, last_published>>
    /\ UNCHANGED <<pc, sideVars, matchVars, ctlVars>>

\* ------------------------------------------------------------ supervisor
\* The sessions start_live_face_recognition started (lines 93-113), in the
\* order of its list: one for every camera that passed the open check.
camera_streams == final_active_camera_inputs

\* Thread.is_alive() of the two threads of a session.
ReaderAlive(c) == rpc[c] \notin {"exited", "unstarted"}
ProcAlive(c) == pc[c] \notin {"exited", "dead", "unstarted"}

\* A thread inside a call that can outlast the five seconds of a join:
\* opening or reading the capture source, detection, a file operation of
\* the full event, or waiting for a lock.
ReaderBlocked(c) == rpc[c] \in {"open", "read"}
ProcBlocked(c) ==
    pc[c] \in {"detect", "lock", "save_open", "save_dump", "capture",
               "log", "log_write"}

\* The stop button and the window close of the collaborator set the flag
\* (gui2.py lines 420 and 1123).
StopRequest ==
    /\ ~stop_event
    /\ stop_event' = TRUE
    /\ UNCHANGED <<rpc, acquired, rframe, internal_frame_queue, frame_queue,
                   frame_counter, frame, face_count, received, last_published>>
    /\ UNCHANGED <<pc, sideVars, matchVars, ctlVars>>

\* Lines 120-122: global_stop_event.wait() returns once the flag is set.
SupWait ==
    /\ sup_pc = "wait"
    /\ stop_event
    /\ sup_pc' = "stop"
    /\ UNCHANGED <<sup_i, join_timeouts, runVars>>
    /\ UNCHANGED <<pc, sideVars, matchVars, frameVars, capVars, eventVars,
                   event_steps, fatal>>

\* Line 126 and CameraStream.stop: the flag is set once more.
SupStop ==
    /\ sup_pc = "stop"
    /\ stop_event' = TRUE
    /\ sup_pc' = "join_reader"
    /\ UNCHANGED <<sup_i, join_timeouts, runVars>>
    /\ UNCHANGED <<rpc, acquired, rframe, internal_frame_queue, frame_queue,
                   frame_counter, frame, face_count, received, last_published>>
    /\ UNCHANGED <<pc, sideVars, matchVars, capVars, eventVars, event_steps,
                   fatal>>

\* Mutant: the supervisor goes on without joining the thread.
JoinReturns_NoWait(alive, blocked, timed_out) == ~timed_out

\* Thread.join(timeout=5) behind is_alive() (lines 130-131 and 141-142):
\* the supervisor goes on when the thread has ended, or after five seconds
\* with the thread still inside a long call.
JoinReturns(alive, blocked, timed_out) ==
    \/ ~alive /\ ~timed_out
    \/ alive /\ blocked /\ timed_out

\* Lines 128-137: the reader thread of the stream is joined.
SupJoinReader(timed_out) ==
    LET c == camera_streams[sup_i]
    IN  /\ sup_pc = "join_reader"
        /\ JoinReturns(ReaderAlive(c), ReaderBlocked(c), timed_out)
        /\ sup_pc' = "join_proc"
        /\ join_timeouts' = IF timed_out
                            THEN join_timeouts \cup {<<c, "reader">>}
                            ELSE join_timeouts
        /\ UNCHANGED <<sup_i, runVars>>
        /\ UNCHANGED <<pc, sideVars, matchVars, frameVars, capVars,
                       eventVars, event_steps, fatal>>

\* Lines 139-150: the processing thread is joined; after the last stream
\* the function returns.
SupJoinProc(timed_out) ==
    LET c == camera_streams[sup_i]
    IN  /\ sup_pc = "join_proc"
        /\ JoinReturns(ProcAlive(c), ProcBlocked(c), timed_out)
        /\ sup_pc' = IF sup_i = Len(camera_streams) THEN "returned" ELSE "stop"
        /\ sup_i' = IF sup_i = Len(camera_streams) THEN sup_i ELSE sup_i + 1
        /\ join_timeouts' = IF timed_out
                            THEN join_timeouts \cup {<<c, "proc">>}
                            ELSE join_timeouts
        /\ UNCHANGED runVars
        /\ UNCHANGED <<pc, sideVars, matchVars, frameVars, capVars,
                       eventVars, event_steps, fatal>>

\* What the start of the supervisor leaves alone in the sessions.
sessionData == <<acquired, rframe, internal_frame_queue, frame_queue,
                 frame_counter, frame, face_count, received, last_published>>

\* main_recognition_logic.py lines 54-63: the configured cameras are
\* listed; with none configured the flag is set and the function returns.
SupConfig ==
    /\ sup_pc = "config"
    /\ IF available_cameras_inputs = <<>>
       THEN stop_event' = TRUE /\ sup_pc' = "returned"
       ELSE stop_event' = stop_event /\ sup_pc' = "verify"
    /\ UNCHANGED <<sup_i, join_timeouts, runVars>>
    /\ UNCHANGED <<rpc, sessionData>>
    /\ UNCHANGED <<pc, sideVars, matchVars, capVars, eventVars, event_steps,
                   fatal>>

\* Mutant: every configured camera is kept, opened or not.
VerifiedInputs_All(final, cam_input, opened) == Append(final, cam_input)

\* Lines 69-72: a camera whose temporary capture opened is kept.
VerifiedInputs(final, cam_input, opened) ==
    IF opened THEN Append(final, cam_input) ELSE final

\* Lines 67-76: one configured camera is opened for the check, and the
\* temporary capture of a camera that opened is released again.
SupVerify(opened) ==
    LET cam_input == available_cameras_inputs[sup_i]
        last == sup_i = Len(available_cameras_inputs)
    IN  /\ sup_pc = "verify"
        /\ final_active_camera_inputs' =
               VerifiedInputs(final_active_camera_inputs, cam_input, opened)
        /\ passed' = IF opened THEN passed \cup {cam_input} ELSE passed
        /\ sup_i' = IF last THEN 1 ELSE sup_i + 1
        /\ sup_pc' = IF last THEN "verified" ELSE "verify"
        /\ UNCHANGED <<join_timeouts, available_cameras_inputs, guiVars,
                       logVars>>
        /\ UNCHANGED <<pc, sideVars, matchVars, frameVars, capVars,
                       eventVars, event_steps, fatal>>

\* Lines 78-81: with no camera left after the check the flag is set and
\* the function returns.
SupVerified ==
    /\ sup_pc = "verified"
    /\ IF final_active_camera_inputs = <<>>
       THEN stop_event' = TRUE /\ sup_pc' = "returned"
       ELSE stop_event' = stop_event /\ sup_pc' = "start"
    /\ UNCHANGED <<sup_i, join_timeouts, runVars>>
    /\ UNCHANGED <<rpc, sessionData>>
    /\ UNCHANGED <<pc, sideVars, matchVars, capVars, eventVars, event_steps,
                   fatal>>

\* Lines 97-113: a CameraStream is made for the next checked camera and
\* its two threads are started; after the last one the function waits for
\* the flag (line 120).
SupStart ==
    LET cam_input == final_active_camera_inputs[sup_i]
        last == sup_i = Len(final_active_camera_inputs)
    IN  /\ sup_pc = "start"
        /\ rpc' = [rpc EXCEPT ![cam_input] = "open"]
        /\ pc' = [pc EXCEPT ![cam_input] = "top"]
        /\ sup_i' = IF last THEN 1 ELSE sup_i + 1
        /\ sup_pc' = IF last THEN "wait" ELSE "start"
        /\ UNCHANGED <<join_timeouts, runVars>>
        /\ UNCHANGED <<stop_event, sessionData>>
        /\ UNCHANGED <<now, last_unknown_capture_time, debounce_lock, db,
                       snapshots, log, sent, face_encoding,
                       current_time_epoch, intruder_id_for_event, encodings,
                       last_logged_times, last_known, gate_log, event_log,
                       calls>>
        /\ UNCHANGED <<matchVars, capVars, eventVars, event_steps, fatal>>

SupStartStep ==
    \/ SupConfig
    \/ \E opened \in BOOLEAN : SupVerify(opened)
    \/ SupVerified
    \/ SupStart

SupervisorStep ==
    \/ SupWait
    \/ SupStop
    \/ \E timed_out \in BOOLEAN : SupJoinReader(timed_out)
    \/ \E timed_out \in BOOLEAN : SupJoinProc(timed_out)

\* ------------------------------------------------------------ collaborator
\* What the handlers of the collaborator leave alone.
guiFrame == <<rpc, sessionData, pc, sideVars, matchVars, capVars, eventVars,
              event_steps, supVars, fatal, startVars, logVars>>

\* The session threads that are alive.
AliveThreads ==
    {<<c, "reader">> : c \in {o \in Cameras : ReaderAlive(o)}}
        \cup {<<c, "proc">> : c \in {o \in Cameras : ProcAlive(o)}}

\* gui2.py lines 418-429 (and 1121-1129 of closeEvent): with the
\* recognition thread running, the flag is set and the handler starts to
\* wait for that thread.
GuiStopCamera ==
    /\ gui_pc = "idle"
    /\ sup_pc # "returned"
    /\ stop_event' = TRUE
    /\ gui_pc' = "wait"
    /\ UNCHANGED alive_at_clear
    /\ UNCHANGED guiFrame

\* QThread.wait(5000): the wait ends when start_live_face_recognition has
\* returned, or after five seconds with it still joining a thread that is
\* inside a long call.
WaitReturns(returned, joining_blocked, timed_out) ==
    \/ returned /\ ~timed_out
    \/ ~returned /\ joining_blocked /\ timed_out

\* The supervisor is inside a join of a thread that is inside a long call.
JoiningBlocked ==
    \/ sup_pc = "join_reader" /\ ReaderAlive(camera_streams[sup_i])
                              /\ ReaderBlocked(camera_streams[sup_i])
    \/ sup_pc = "join_proc" /\ ProcAlive(camera_streams[sup_i])
                            /\ ProcBlocked(camera_streams[sup_i])

\* gui2.py lines 432-441: after the wait, timed out or not, the thread
\* reference is dropped and the flag is cleared.
GuiStopFinish(timed_out) ==
    /\ gui_pc = "wait"
    /\ WaitReturns(sup_pc = "returned", JoiningBlocked, timed_out)
    /\ stop_event' = FALSE
    /\ alive_at_clear' = alive_at_clear \cup AliveThreads
    /\ gui_pc' = "stopped"
    /\ UNCHANGED guiFrame

\* gui2.py lines 388-408: the slot of the finished signal runs once
\* start_live_face_recognition has returned, and clears the flag.
GuiCameraFinished ==
    /\ gui_pc \in {"idle", "stopped"}
    /\ sup_pc = "returned"
    /\ stop_event' = FALSE
    /\ alive_at_clear' = alive_at_clear \cup AliveThreads
    /\ gui_pc' = "finished"
    /\ UNCHANGED guiFrame

GuiStep ==
    \/ GuiStopCamera
    \/ \E timed_out \in BOOLEAN : GuiStopFinish(timed_out)
    \/ GuiCameraFinished

\* ---------------------------------------------------- match engine harness
\* Lines 200-206 of the recognition stage, on the harness inputs.
MatchKnown ==
    /\ q_known = None
    /\ q_known' = CatalogMatch(q_refs, q_enc, q_tol)
    /\ UNCHANGED <<q_refs, q_enc, q_tol, q_intruder>>
    /\ UNCHANGED <<pipelineVars, frameVars, ctlVars>>

\* Lines 57-66 of match_or_add_intruder, on the harness inputs.
MatchIntruder ==
    /\ q_intruder = None
    /\ q_intruder' = RegistryMatch(q_refs, q_enc, q_tol)
    /\ UNCHANGED <<q_refs, q_enc, q_tol, q_known>>
    /\ UNCHANGED <<pipelineVars, frameVars, ctlVars>>

\* ------------------------------------------------------- specifications
GateChecksPending == Cardinality({c \in Cameras : pc[c] \in {"lock", "gate"}})

Times(horizon) == StartTime..(StartTime + horizon)

UnknownStep(c, horizon, maxChecks) ==
    \/ /\ pc[c] = "face"
       /\ Len(gate_log) + GateChecksPending < maxChecks
       /\ \E enc \in FaceInputs, t \in Times(horizon) : RecognizeUnknown(c, enc, t)
    \/ AcquireLock(c)
    \/ GateCheck(c)
    \/ (pc[c] = "event" /\ \E t \in Times(horizon) : StartEvent(c, t))
    \/ SaveOpen(c)
    \/ SaveDump(c)
    \/ FinishEvent(c, "none")

\* The steps of a full event that end in an exception.
FailureStep(c) ==
    \/ \E f \in {"capture", "email"} : FinishEvent(c, f)
    \/ ResolveFail(c)

KnownStep(c, horizon, maxLogs) ==
    /\ pc[c] = "face"
    /\ Len(log) < maxLogs
    /\ \E enc \in FaceInputs, t \in Times(horizon) : RecognizeKnown(c, enc, t)

\* The unknown-face path of every camera, every step of an event succeeding.
NextGate == \E c \in Cameras : UnknownStep(c, GateHorizon, MaxGateChecks)

SpecGate == Init /\ [][NextGate]_vars

\* The known-face path of every camera.
NextKnown == \E c \in Cameras : KnownStep(c, KnownHorizon, MaxKnownLogs)

SpecKnown == Init /\ [][NextKnown]_vars

\* The unknown-face path with the full event taken step by step, every
\* step succeeding or failing, and the sends of the notifications.
EventStep(c, horizon, maxChecks) ==
    \/ /\ pc[c] = "face"
       /\ Len(gate_log) + GateChecksPending < maxChecks
       /\ \E enc \in FaceInputs, t \in Times(horizon) : RecognizeUnknown(c, enc, t)
    \/ AcquireLock(c)
    \/ GateCheck(c)
    \/ (pc[c] = "event" /\ \E t \in Times(horizon) : StartEvent(c, t))
    \/ SaveOpen(c)
    \/ SaveDump(c)
    \/ ResolveFail(c)
    \/ \E outcome \in {"written", "not_written", "raised"} :
          CaptureStep(c, outcome)
    \/ LogAcquire(c)
    \/ \E appended \in BOOLEAN : LogWrite(c, appended)
    \/ \E started \in BOOLEAN : Dispatch(c, started)
    \/ LabelStep(c)

NextEvent ==
    \/ \E c \in Cameras : EventStep(c, EventHorizon, EventGateChecks)
    \/ \E i \in 1..Len(email_threads), delivered \in BOOLEAN :
          EmailSend(i, delivered)

SpecEvent == Init /\ [][NextEvent]_vars

\* Both paths together, with the failures of the event's steps.
Next ==
    \/ \E c \in Cameras : UnknownStep(c, BothHorizon, BothGateChecks)
    \/ \E c \in Cameras : FailureStep(c)
    \/ \E c \in Cameras : KnownStep(c, BothHorizon, BothKnownLogs)

Spec == Init /\ [][Next]_vars

\* The two matchers applied to every input within the bounds.
NextMatch == MatchKnown \/ MatchIntruder

SpecMatch == InitEngine /\ [][NextMatch]_vars

CallsPending == Cardinality({t \in Callers : pc[t] # "idle"})

DriverStep(t) ==
    \/ /\ Len(calls) + CallsPending < MaxCalls
       /\ \E enc \in DriverInputs : DirectCall(t, enc)
    \/ SaveOpen(t)
    \/ SaveDump(t)

\* The acquisition stage of one session; the source delivers maxFrames
\* frames and can be opened maxOpens times.
ReaderSteps(c, maxFrames, maxOpens) ==
    \/ \E opened \in BOOLEAN : ReaderOpen(c, opened)
    \/ ReaderLoop(c)
    \/ (acquired[c] < maxFrames /\ ReaderRead(c))
    \/ \E reopened \in BOOLEAN :
          (reopened => opens[c] < maxOpens) /\ ReaderReadFail(c, reopened)
    \/ ReaderCheck(c)
    \/ ReaderEvict(c)
    \/ ReaderPut(c)
    \/ ReaderSleep(c)

\* The same with a source that opens FrameOpens times.
ReaderStep(c, maxFrames) == ReaderSteps(c, maxFrames, FrameOpens)

\* The acquisition stages alone: no recognition stage ever reads.
NextAcquire == \E c \in Cameras : ReaderStep(c, AcquireFrames)

SpecAcquire == InitSessions /\ [][NextAcquire]_vars

\* The face counts the detector reports: none, two, the ceiling, and one
\* more than the ceiling.
FaceCounts == {0, 2, MAX_REASONABLE_FACES, MAX_REASONABLE_FACES + 1}

\* The supervisor from its entry on, with sessions that open their source,
\* run idle and can lose it.
StartSessionStep(c) ==
    \/ \E opened \in BOOLEAN : ReaderOpen(c, opened)
    \/ ReaderLoop(c)
    \/ ReaderReadFail(c, FALSE)
    \/ ProcTop(c)
    \/ GetTimeout(c)

NextStartup ==
    \/ SupStartStep
    \/ SupervisorStep
    \/ \E c \in Cameras : StartSessionStep(c)

SpecStartup == InitStartup /\ [][NextStartup]_vars

\* The names the concurrent writers log.
WriterNames == {<<"Alice">>, <<"Bob">>}

\* Concurrent writers of the log (logging_manager.py lines 120-133).
WriterStep(t) ==
    \/ /\ Len(log_calls) < MaxLogCalls
       /\ \E name \in WriterNames : WriterCall(t, name)
    \/ WriterAcquire(t)
    \/ \E opened \in BOOLEAN : WriterOpen(t, opened)
    \/ WriterWrite(t)
    \/ WriterFlush(t)

NextLog == \E t \in Callers : WriterStep(t)

SpecLog == Init /\ [][NextLog]_vars

\* The names that can be typed at the prompt of manual_delete.
DeleteNames == 1..MaxCalls

\* One run after another of manual_delete.py.
DeleteStep(t) ==
    \/ DeleteLoad(t)
    \/ \E name_to_delete \in DeleteNames : DeleteInput(t, name_to_delete)
    \/ DeleteOpen(t)
    \/ DeleteDump(t)

\* match_or_add_intruder called by one thread while an operator runs
\* manual_delete.
NextDelete == DriverStep("drv0") \/ DeleteStep("drv1")

SpecDelete == Init /\ [][NextDelete]_vars

\* The acquisition stages with a source that fails and reopens, and the
\* stop request of the operator.
NextCapture ==
    \/ \E c \in Cameras : ReaderSteps(c, CaptureFrames, CaptureOpens)
    \/ StopRequest

SpecCapture == InitSessions /\ [][NextCapture]_vars

\* The frame-level steps of the recognition stage of one session, the
\* detector reporting one of the given face counts.
ProcSteps(c, counts) ==
    \/ ProcTop(c)
    \/ GetTimeout(c)
    \/ GetFrame(c)
    \/ \E outcome \in {"invalid", "error"} : Detect(c, outcome, 0)
    \/ \E n \in counts : Detect(c, "faces", n)
    \/ EndFrame(c)

ProcStep(c) == ProcSteps(c, FaceCounts)

\* The session whose frames are followed one by one.
FrameCameras == {"cam0"}

\* One whole session: acquisition, recognition with the faces of each
\* processed frame, and the display taking the output frames.
NextFrame ==
    \E c \in FrameCameras :
        \/ ReaderStep(c, MaxFrames)
        \/ ProcStep(c)
        \/ DisplayTake(c)
        \/ UnknownStep(c, FrameHorizon, FrameGateChecks)
        \/ KnownStep(c, FrameHorizon, FrameKnownLogs)

SpecFrame == InitSessions /\ [][NextFrame]_vars

\* Every session running: three frames were acquired, the third waits in
\* the internal queue, two were received and displayed, the readers are at
\* their loop test and the recognition stages at theirs.
InitRunning ==
    /\ InitPipeline
    /\ InitMatch
    /\ stop_event = FALSE
    /\ rpc = [c \in Cameras |-> "loop"]
    /\ acquired = [c \in Cameras |-> FRAME_SKIP - 1]
    /\ rframe = [c \in Cameras |-> FRAME_SKIP - 1]
    /\ internal_frame_queue = [c \in Cameras |-> <<FRAME_SKIP - 1>>]
    /\ frame_queue = [c \in Cameras |-> <<>>]
    /\ frame_counter = [c \in Cameras |-> FRAME_SKIP - 2]
    /\ frame = [c \in Cameras |-> FRAME_SKIP - 2]
    /\ face_count = [c \in Cameras |-> None]
    /\ received = [c \in Cameras |-> [i \in 1..(FRAME_SKIP - 2) |-> i]]
    /\ last_published = [c \in Cameras |->
           [frame |-> FRAME_SKIP - 2, overlay |-> FALSE]]
    /\ cap = [c \in Cameras |-> TRUE]
    /\ handles = [c \in Cameras |-> 1]
    /\ opens = [c \in Cameras |-> 1]
    /\ pc = [t \in Threads |-> IF t \in Cameras THEN "top" ELSE "idle"]

\* In the whole pipeline every processed frame shows two faces.
PipeFaceCounts == {2}

\* The recognition thread of one session of the pipeline.
PipeProcStep(c) ==
    \/ ProcSteps(c, PipeFaceCounts)
    \/ UnknownStep(c, PipeHorizon, PipeGateChecks)

\* The acquisition thread of one running session.
PipeReaderStep(c) ==
    \/ ReaderLoop(c)
    \/ (acquired[c] < PipeFrames /\ ReaderRead(c))
    \/ \E reopened \in BOOLEAN :
          (reopened => opens[c] < PipeOpens) /\ ReaderReadFail(c, reopened)
    \/ ReaderCheck(c)
    \/ ReaderEvict(c)
    \/ ReaderPut(c)
    \/ ReaderSleep(c)

\* The threads of one session.
SessionStep(c) ==
    \/ PipeReaderStep(c)
    \/ PipeProcStep(c)

\* The whole pipeline, left to itself: every session and the supervisor.
NextPipeline ==
    \/ \E c \in Cameras : SessionStep(c)
    \/ SupervisorStep

\* Every thread keeps being scheduled; a read of the capture source can
\* wait for as long as the source is silent, but returns once the flag is
\* set.
FairPipeline ==
    /\ \A c \in Cameras :
          WF_vars((rpc[c] # "read" \/ stop_event) /\ PipeReaderStep(c))
    /\ \A c \in Cameras : WF_vars(PipeProcStep(c))
    /\ WF_vars(SupervisorStep)

SpecPipeline == InitRunning /\ [][NextPipeline]_vars /\ FairPipeline

\* The pipeline with the stop request of the operator.
NextShutdown ==
    \/ NextPipeline
    \/ StopRequest

SpecShutdown == InitRunning /\ [][NextShutdown]_vars

\* The pipeline and the collaborator that stops it.
NextStop == NextPipeline \/ GuiStep

SpecStop == InitRunning /\ [][NextStop]_vars

\* One driver: match_or_add_intruder called one call at a time.
NextSeq == DriverStep("drv0")

SpecSeq == Init /\ [][NextSeq]_vars

\* Several drivers: the calls of match_or_add_intruder interleave.
NextRegistry == \E t \in Callers : DriverStep(t)

SpecRegistry == Init /\ [][NextRegistry]_vars

\* ----------------------------------------------------------- properties
Granted == {j \in 1..Len(gate_log) : gate_log[j].granted}

EventPairs == {p \in (1..Len(event_log)) \X (1..Len(event_log)) : p[1] < p[2]}

\* C1, as stated: at most one full intruder event starts within any rolling
\* window of UNKNOWN_CAPTURE_DEBOUNCE_TIME, across all sessions: the starts
\* of any two events are at least the window apart.
C1_StartsWindowApart ==
    \A p \in EventPairs :
        Abs(event_log[p[2]].start - event_log[p[1]].start)
            >= UNKNOWN_CAPTURE_DEBOUNCE_TIME

\* C1, amended: every full event is started by one granted detection, and
\* the clock values sampled by the detections (line 220) that start any two
\* full events are at least the window apart, whatever the sessions'
\* interleaving.
C1_StampsWindowApart ==
    /\ Len(event_log) <= Cardinality(Granted)
    /\ \A i \in 1..Len(event_log) :
          \E j \in Granted : gate_log[j].t = event_log[i].stamp
    /\ \A p \in EventPairs :
          Abs(event_log[p[2]].stamp - event_log[p[1]].stamp)
              >= UNKNOWN_CAPTURE_DEBOUNCE_TIME

\* Witness of C1: two full events whose starts are less than the window
\* apart.
C1_Witness ==
    \E p \in EventPairs :
        Abs(event_log[p[2]].start - event_log[p[1]].start)
            < UNKNOWN_CAPTURE_DEBOUNCE_TIME

\* The timestamp the gate compares detection j with: that of the latest
\* grant before it, 0 when there is none.
StampBefore(j) ==
    LET earlier == {i \in Granted : i < j}
    IN  IF earlier = {} THEN 0
        ELSE gate_log[CHOOSE i \in earlier : \A k \in earlier : k <= i].t

\* C2: a detection is granted exactly when at least the window (10 s) has
\* elapsed between the latest grant and its sampled time, so of two
\* detections 3 s apart one produces a full event and of two detections
\* 11 s apart both do; every grant produces one full event.
C2_GrantIffWindowElapsed ==
    /\ \A j \in 1..Len(gate_log) :
          gate_log[j].granted <=>
              gate_log[j].t - StampBefore(j) >= UNKNOWN_CAPTURE_DEBOUNCE_TIME
    /\ \A j \in 1..Len(gate_log) : \A i \in 1..(j - 1) :
          /\ (gate_log[i].granted /\ gate_log[j].t - gate_log[i].t = 3)
                => ~gate_log[j].granted
          /\ (gate_log[i].granted /\ gate_log[j].t - gate_log[i].t = 11
                /\ \A k \in (i + 1)..(j - 1) : ~gate_log[k].granted)
                => gate_log[j].granted
    /\ Len(event_log) + Cardinality({c \in Cameras : pc[c] = "event"})
          = Cardinality(Granted)

\* Witness of C2: a granted detection, one 3 s later that is denied, one
\* 11 s after the first that is granted, and the two events started.
C2_Witness ==
    /\ Len(gate_log) = 3
    /\ gate_log[1].granted
    /\ gate_log[2].t - gate_log[1].t = 3 /\ ~gate_log[2].granted
    /\ gate_log[3].t - gate_log[1].t = 11 /\ gate_log[3].granted
    /\ Len(event_log) = 2

\* C3: a detection the global gate denies performs none of the four side
\* effects (no registry resolution, no snapshot, no log entry, no
\* notification) and leaves the shared timestamp unchanged: the denying
\* step ends the detection, and a session is inside a full event only with
\* the grant that stored its sampled time.
C3_DeniedHasNoEffect ==
    /\ [][\A c \in Cameras :
            (/\ pc[c] = "gate"
             /\ pc'[c] # "gate"
             /\ current_time_epoch[c] - last_unknown_capture_time
                    < UNKNOWN_CAPTURE_DEBOUNCE_TIME)
            => /\ pc'[c] \in {"face", "dead"}
               /\ face_encoding'[c] = None
               /\ UNCHANGED <<db, snapshots, log, sent, event_log, encodings,
                              last_unknown_capture_time,
                              intruder_id_for_event>>]_vars
    /\ [](\A c \in Cameras :
            pc[c] \in {"event", "save_open", "save_dump"}
                => \E j \in Granted : gate_log[j].t = current_time_epoch[c])

\* Witness of C3: a denied detection after which the session goes on.
C3_Witness ==
    /\ \E j \in 1..Len(gate_log) : ~gate_log[j].granted
    /\ \E c \in Cameras : pc[c] = "face" /\ intruder_id_for_event[c] # None
    /\ Len(event_log) = 1 /\ Len(log) = 1

\* C4: the two gates are disjoint.  A step of the unknown-face path leaves
\* the sessions' last_logged_times alone and its decision is a function of
\* the sampled time and the global timestamp only; a known-face detection
\* leaves the global timestamp, its lock, the registry, the snapshot folder
\* and the notification sink alone and its decision is a function of the
\* session's own last_logged_times entry only.
C4_GatesDisjoint ==
    [][/\ (pc' # pc) => UNCHANGED <<last_logged_times, last_known>>
       /\ (last_known' # last_known \/ last_logged_times' # last_logged_times)
            => /\ UNCHANGED <<pc, last_unknown_capture_time, debounce_lock, db,
                              snapshots, sent, gate_log, event_log,
                              intruder_id_for_event, encodings>>
               /\ last_known'.last_time =
                      last_logged_times[last_known'.cam][last_known'.label]
               /\ last_known'.logged <=>
                      (\/ last_known'.last_time = None
                       \/ last_known'.t - last_known'.last_time
                              >= KNOWN_FACE_LOG_DEBOUNCE_TIME)
       /\ \A c \in Cameras :
            (pc[c] = "gate" /\ pc'[c] # "gate")
                => (pc'[c] = "event" <=>
                        current_time_epoch[c] - last_unknown_capture_time
                            >= UNKNOWN_CAPTURE_DEBOUNCE_TIME)
       /\ \A i \in 1..Len(log') :
            (i > Len(log) /\ log'[i].image_link = <<"N/A">>) <=>
                (i > Len(log) /\ last_known' # last_known)
      ]_vars

\* Witness of C4: within one window a session has logged a known face and
\* an unknown face has been granted and another denied.
C4_Witness ==
    /\ last_known.logged
    /\ \E j \in 1..Len(gate_log) : gate_log[j].granted
    /\ \E j \in 1..Len(gate_log) : ~gate_log[j].granted
    /\ \E i \in 1..Len(log) : log[i].image_link # <<"N/A">>
    /\ \E i \in 1..Len(log) : log[i].image_link = <<"N/A">>

KnownEntry(label) ==
    [name |-> <<label[1]>>,
     gender |-> IF Len(label) > 1 THEN label[2] ELSE "unknown",
     image_link |-> <<"N/A">>]

Entries(name) == Cardinality({i \in 1..Len(log) : log[i].name = name})

MinDistance(refs, enc) ==
    CHOOSE d \in 0..MaxCoord + 1 :
        /\ \E i \in 1..Len(refs) : Abs(refs[i] - enc) = d
        /\ \A i \in 1..Len(refs) : Abs(refs[i] - enc) >= d

\* The result r is what identity matching must return on the harness
\* inputs: no match (0) when the reference list is empty or its minimum
\* distance exceeds the tolerance, otherwise an entry at minimum distance.
IsNearestWithin(r) ==
    IF q_refs = <<>> THEN r = 0
    ELSE IF MinDistance(q_refs, q_enc) > q_tol THEN r = 0
    ELSE /\ r \in 1..Len(q_refs)
         /\ Abs(q_refs[r] - q_enc) = MinDistance(q_refs, q_enc)

\* C7: for every descriptor, reference list and tolerance, both matchers
\* return the entry at minimum distance when that distance is within the
\* tolerance and "no match" when the list is empty or the minimum exceeds
\* the tolerance; never an entry that is not a minimizer.
C7_MatchIsNearestWithin ==
    /\ q_known # None => IsNearestWithin(q_known)
    /\ q_intruder # None => IsNearestWithin(q_intruder)

\* Witness of C7: tolerance 0.6, the first entry within tolerance at
\* distance 0.5, a later entry at distance 0.4 is the one returned, and a
\* third at distance 0.9.
C7_Witness ==
    /\ q_tol = 6 /\ Len(q_refs) = 3
    /\ Abs(q_refs[1] - q_enc) = 5
    /\ Abs(q_refs[2] - q_enc) = 4
    /\ Abs(q_refs[3] - q_enc) = 9
    /\ q_known = 2

\* C8: the catalog matcher and the registry matcher give the same
\* match / no-match decision and the same selected index on every
\* descriptor, reference list and tolerance.
C8_MatchersAgree ==
    (q_known # None /\ q_intruder # None) => q_known = q_intruder

\* Witness of C8: both matchers have run on a list whose first entry is
\* within tolerance but not nearest, and both selected the nearest.
C8_Witness ==
    /\ Len(q_refs) >= 2
    /\ Abs(q_refs[1] - q_enc) <= q_tol
    /\ Abs(q_refs[2] - q_enc) < Abs(q_refs[1] - q_enc)
    /\ q_known = q_intruder /\ q_known > 1

\* ---------------------------------------------------- registry properties
PairwiseFar(cs) ==
    \A i \in 1..Len(cs) : \A j \in 1..Len(cs) :
        i # j => Abs(cs[i].enc - cs[j].enc) > RECOGNITION_TOLERANCE

\* C9: from the empty registry, calls made one at a time on N descriptors
\* pairwise farther apart than the tolerance return Intruder_1 ..
\* Intruder_N in call order, and after them the registry holds N records.
C9_SequentialIds ==
    PairwiseFar(calls) =>
        /\ \A i \in 1..Len(calls) : calls[i].id = i
        /\ pc["drv0"] = "idle" =>
              /\ Len(db) = Len(calls)
              /\ \A i \in 1..Len(db) : db[i] = calls[i]

\* Witness of C9: three pairwise-far descriptors have been resolved.
C9_Witness ==
    /\ Len(calls) = 3
    /\ PairwiseFar(calls)
    /\ pc["drv0"] = "idle"
    /\ Len(db) = 3

\* C10: in every reachable state of the persisted registry, whatever the
\* interleaving of the match_or_add_intruder calls, the record at position
\* i has id Intruder_i.
C10_DenseIds ==
    \A i \in 1..Len(db) : db[i].id = i

\* Witness of C10: two calls raced (two far descriptors were given the
\* same id) and the registry has since grown to two records.
C10_Witness ==
    /\ Len(db) = 2
    /\ \E i \in 1..Len(calls) : \E j \in 1..Len(calls) :
          /\ i < j
          /\ Abs(calls[i].enc - calls[j].enc) > RECOGNITION_TOLERANCE
          /\ calls[i].id = calls[j].id

\* Some record of the registry is within tolerance of the descriptor.
HasMatch(records, enc) ==
    \E i \in 1..Len(records) :
        Abs(records[i].enc - enc) <= RECOGNITION_TOLERANCE

\* C11: a call whose descriptor is within tolerance of a registry record
\* returns at once with the id of a nearest record and leaves the persisted
\* registry unchanged: nothing is appended and no save is started.
C11_MatchLeavesRegistry ==
    [][/\ \A t \in Callers :
            (pc[t] = "idle" /\ pc'[t] = "save_open")
                => ~HasMatch(db, face_encoding'[t])
       /\ (Len(calls') > Len(calls) /\ pc' = pc)
            => LET c == calls'[Len(calls')]
               IN  /\ HasMatch(db, c.enc)
                   /\ db' = db
                   /\ encodings' = encodings
                   /\ \E i \in 1..Len(db) :
                         /\ db[i].id = c.id
                         /\ \A j \in 1..Len(db) :
                               Abs(db[i].enc - c.enc) <= Abs(db[j].enc - c.enc)
      ]_vars

\* Witness of C11: a descriptor at distance 0.5 of the only record was
\* given that record's id and the registry still holds that one record.
C11_Witness ==
    /\ Len(db) = 1 /\ db[1] = [enc |-> 9, id |-> 1]
    /\ Len(calls) = 2
    /\ calls[2] = [enc |-> 14, id |-> 1]
    /\ \A t \in Callers : pc[t] = "idle"

AllIdle == \A t \in Callers : pc[t] = "idle"

\* C12: match_or_add_intruder is not serialized.  When two calls on two
\* different novel descriptors have both returned, either they did not
\* overlap (ids 1 and 2, both records persisted) or their load, append and
\* save steps interleaved: both were given id 1 and the persisted registry
\* holds only one of the two appended records.
C12_LostUpdate ==
    (AllIdle /\ Len(calls) = 2 /\ PairwiseFar(calls)) =>
        /\ calls[1].id = 1
        /\ \/ calls[2].id = 2 /\ db = calls
           \/ /\ calls[2].id = 1
              /\ Len(db) = 1
              /\ db[1] \in {calls[1], calls[2]}

\* Witness of C12: two sessions resolved the novel descriptors 9 and 20,
\* and the registry ends with one record.
C12_Witness ==
    /\ AllIdle
    /\ Len(calls) = 2
    /\ {calls[1].enc, calls[2].enc} = {9, 20}
    /\ calls[1].id = 1 /\ calls[2].id = 1
    /\ Len(db) = 1

\* The session is about to run, or is inside, registry resolution.
Resolving(c) == pc[c] \in {"event", "save_open", "save_dump"}

\* C13, as stated: a session whose detection of a descriptor was sampled
\* within 2 s of another session's detection of the same descriptor, that
\* session being in registry resolution, goes on to registry resolution
\* too.
C13_BothResolveWithin2s ==
    [][\A c \in Cameras : \A o \in Cameras \ {c} :
          (/\ pc[c] = "gate" /\ pc'[c] # "gate"
           /\ Resolving(o)
           /\ face_encoding[c] = face_encoding[o]
           /\ Abs(current_time_epoch[c] - current_time_epoch[o]) <= 2)
          => Resolving(c)'
      ]_vars

\* C13, amended: two sessions are in registry resolution together only
\* for detections sampled at least UNKNOWN_CAPTURE_DEBOUNCE_TIME apart (of
\* two detections within 2 s of each other the global gate grants at most
\* one), and the registry never holds two records of one descriptor.
C13_ResolveTogetherWindowApart ==
    /\ \A c \in Cameras : \A o \in Cameras \ {c} :
          (Resolving(c) /\ Resolving(o))
              => Abs(current_time_epoch[c] - current_time_epoch[o])
                     >= UNKNOWN_CAPTURE_DEBOUNCE_TIME
    /\ \A i \in 1..Len(gate_log) : \A j \in 1..Len(gate_log) :
          (i # j /\ Abs(gate_log[i].t - gate_log[j].t) <= 2)
              => ~(gate_log[i].granted /\ gate_log[j].granted)
    /\ \A i \in 1..Len(db) : \A j \in 1..Len(db) :
          i # j => db[i].enc # db[j].enc

\* Witness of C13: both sessions are resolving the same novel descriptor,
\* neither save has completed, and each has staged Intruder_1.
C13_Witness ==
    /\ pc["cam0"] = "save_dump" /\ pc["cam1"] = "save_dump"
    /\ face_encoding["cam0"] = face_encoding["cam1"]
    /\ encodings["cam0"] = encodings["cam1"]
    /\ Len(encodings["cam0"]) = 1

\* ------------------------------------------------------ queue properties
\* The acquisition stage is between two iterations.
BetweenReads(c) == rpc[c] \in {"sleep", "loop", "read", "exited"}

\* C14: if the recognition stage never reads, then after K >= 1 successful
\* acquisitions the internal handoff queue holds exactly one item, the
\* frame of acquisition K.
C14_QueueHoldsLatest ==
    \A c \in Cameras :
        (BetweenReads(c) /\ acquired[c] >= 1)
            => internal_frame_queue[c] = <<acquired[c]>>

\* Witness of C14: after four acquisitions the acquisition stage has ended
\* on a failed reopen, and the queue holds frame 4.
C14_Witness ==
    /\ acquired["cam0"] = 4
    /\ rpc["cam0"] = "exited"
    /\ internal_frame_queue["cam0"] = <<4>>

\* C15: with the recognition stage consuming concurrently, every
\* successfully read frame is placed into the internal queue: at the end of
\* each successful read iteration the queue holds the frame just read,
\* unless the recognition stage has already taken that frame.
C15_ReadFrameQueued ==
    \A c \in Cameras :
        rpc[c] = "sleep"
            => \/ internal_frame_queue[c] = <<rframe[c]>>
               \/ \E i \in 1..Len(received[c]) : received[c][i] = rframe[c]

\* C16: a publish to the output queue evicts the waiting frame and never
\* blocks, so a non-empty output queue holds the most recently published
\* frame.
C16_OutputHoldsLatest ==
    \A c \in Cameras :
        frame_queue[c] # <<>> => frame_queue[c] = <<last_published[c]>>

\* ------------------------------------------------------ frame properties
\* C17: within one session the frames received by the recognition stage
\* are in strictly increasing acquisition order: frames may be skipped, but
\* no frame is delivered twice and none after a frame acquired later.
C17_ReceivedInOrder ==
    \A c \in Cameras :
        \A i, j \in 1..Len(received[c]) :
            i < j => received[c][i] < received[c][j]

\* Witness of C17: frame 2 was evicted unseen; frames 1, 3 and 4 were
\* received, in that order.
C17_Witness == received["cam0"] = <<1, 3, 4>>

\* C18: the frame counter is incremented on every received frame, starting
\* at 1; detection runs only on counters 4, 8, 12, ...; every other
\* received frame triggers no detection and no side effect and is then in
\* the output queue without overlay.
C18_SkipLaw ==
    [][\A c \in Cameras :
          /\ pc'[c] = "detect" => frame_counter'[c] % FRAME_SKIP = 0
          /\ frame_counter'[c] # frame_counter[c] =>
                /\ frame_counter'[c] = frame_counter[c] + 1
                /\ IF frame_counter'[c] % FRAME_SKIP = 0
                   THEN pc'[c] = "detect"
                   ELSE /\ pc'[c] = "top"
                        /\ sideVars' = sideVars
                        /\ stop_event' = stop_event
                        /\ frame_queue'[c] =
                              <<[frame |-> frame'[c], overlay |-> FALSE]>>
      ]_vars

\* C19: when detection reports more than 10 faces the frame is dropped
\* entirely: nothing is published for it, no identity is resolved, no gate
\* is consulted, no side effect occurs, the stop flag is not set and the
\* session goes on with the next frame; a frame with 10 faces or fewer is
\* processed normally (its faces are resolved, or with no face it is
\* published annotated), unless the stop flag ends the stage first.
C19_TooManyFacesDropped ==
    [][\A c \in Cameras :
          (pc[c] = "detect" /\ pc'[c] # "detect" /\ face_count'[c] # None)
              => IF face_count'[c] > 10
                 THEN /\ pc'[c] = "top"
                      /\ frame_queue' = frame_queue
                      /\ last_published' = last_published
                      /\ sideVars' = sideVars
                      /\ stop_event' = stop_event
                 ELSE \/ stop_event /\ pc'[c] = "exited"
                      \/ /\ ~stop_event
                         /\ face_count'[c] = 0
                         /\ pc'[c] = "top"
                         /\ last_published'[c] =
                               [frame |-> frame[c], overlay |-> TRUE]
                      \/ /\ ~stop_event
                         /\ face_count'[c] > 0
                         /\ pc'[c] = "face"
      ]_vars

\* Witness of C19: the fourth received frame showed 11 faces and was not
\* published; the session went on and forwarded the fifth received frame.
C19_Witness ==
    /\ frame_counter["cam0"] = 5
    /\ face_count["cam0"] = 11
    /\ ~stop_event
    /\ pc["cam0"] = "top"
    /\ last_published["cam0"] =
          [frame |-> received["cam0"][5], overlay |-> FALSE]
    /\ event_log = <<>>

\* C20: an exception raised by detection or encoding sets the shared stop
\* flag and ends the recognition stage of the session, and nothing is
\* resolved, gated, logged, captured or notified for that frame: every
\* step that leaves the loop from detection has the flag set afterwards
\* and changes no side-effect state, and the stage has ended only with the
\* flag set.
C20_DetectionErrorStops ==
    [][\A c \in Cameras :
          /\ (pc[c] = "detect" /\ pc'[c] \notin {"detect", "top", "face"})
                => /\ pc'[c] = "exited"
                   /\ stop_event'
                   /\ sideVars' = sideVars
          /\ pc'[c] = "exited" => stop_event'
      ]_vars

\* Witness of C20: detection raised on the fourth received frame while the
\* acquisition stage was still running: the flag is set, the recognition
\* stage has ended and no event was recorded.
C20_Witness ==
    /\ pc["cam0"] = "exited"
    /\ rpc["cam0"] # "exited"
    /\ stop_event
    /\ frame_counter["cam0"] = 4
    /\ face_count["cam0"] = None
    /\ last_published["cam0"] = [frame |-> frame["cam0"], overlay |-> FALSE]
    /\ event_log = <<>>
    /\ gate_log = <<>>

\* --------------------------------------------------- shutdown properties
\* Both threads of a session have ended.
Terminated(c) == ~ReaderAlive(c) /\ ~ProcAlive(c)

\* C21: a fatal condition in one session (an exception of detection or
\* encoding, a failed open or reopen of the source) halts the whole
\* pipeline: afterwards the acquisition and recognition stages of every
\* other session eventually end and the supervisor returns.
C21_FatalHaltsPipeline ==
    \A c \in Cameras :
        (c \in fatal) ~>
            /\ \A o \in Cameras \ {c} : Terminated(o)
            /\ sup_pc = "returned"

\* Witness of C21: detection raised in cam0 alone; cam1, which had gone on
\* to its fourth frame, has ended and the supervisor has returned.
C21_Witness ==
    /\ fatal = {"cam0"}
    /\ face_count["cam0"] = None
    /\ pc["cam0"] = "exited"
    /\ acquired["cam1"] = FRAME_SKIP
    /\ Terminated("cam1")
    /\ sup_pc = "returned"

\* ---------------------------------------------------- capture properties
\* C22: on a failed read the acquisition stage releases the capture and
\* reopens the source; after a successful reopen the stop flag is as it
\* was and acquisition goes on, however many such failures there were;
\* after a failed reopen, and after a failed initial open, the flag is set
\* and the stage has ended.
C22_ReopenOrStop ==
    [][\A c \in Cameras :
          /\ (rpc[c] = "read" /\ rpc'[c] \notin {"read", "check"})
                => \/ /\ cap'[c] /\ opens'[c] = opens[c] + 1
                      /\ handles'[c] = 1
                      /\ stop_event' = stop_event
                      /\ rpc'[c] = "loop"
                   \/ /\ ~cap'[c] /\ opens'[c] = opens[c]
                      /\ handles'[c] = 0
                      /\ stop_event'
                      /\ rpc'[c] = "exited"
          /\ (rpc[c] = "open" /\ rpc'[c] # "open")
                => \/ cap'[c] /\ stop_event' = stop_event /\ rpc'[c] = "loop"
                   \/ ~cap'[c] /\ stop_event' /\ rpc'[c] = "exited"
      ]_vars

\* Witness of C22: the source was reopened twice after failed reads, the
\* flag is still unset and a frame was acquired after the second reopen.
C22_Witness ==
    /\ opens["cam0"] = 3
    /\ acquired["cam0"] = 1
    /\ rpc["cam0"] = "sleep"
    /\ internal_frame_queue["cam0"] = <<1>>
    /\ ~stop_event

\* C23: the acquisition stage never has two capture handles open (each
\* is released before the next is opened), and a stage that has ended
\* has none open, whichever way it ended.
C23_HandlesReleased ==
    \A c \in Cameras :
        /\ handles[c] <= 1
        /\ rpc[c] = "exited" => handles[c] = 0

\* Witness of C23: the stage opened three handles in turn and ended on the
\* stop flag with none open.
C23_Witness ==
    /\ opens["cam0"] = 3
    /\ acquired["cam0"] = 1
    /\ rpc["cam0"] = "exited"
    /\ cap["cam0"] = FALSE
    /\ handles["cam0"] = 0
    /\ "cam0" \notin fatal

\* ------------------------------------------------------ event properties
\* C24: a failure of registry resolution, snapshot capture, log append or
\* notification during a full intruder event is recovered locally: the
\* stop flag is left as it is, the recognition stage does not end, and the
\* session goes on with the rest of the frame.
C24_FailureRecovered ==
    [][\A c \in Cameras :
          FailureStep(c) => /\ stop_event' = stop_event
                            /\ pc'[c] = "face"
      ]_vars

\* C25: notification dispatch is fire-and-forget: send_alert_in_thread
\* returns with the send still to be made; the send, delivered or failed,
\* changes neither the stop flag nor the debounce timestamp nor the
\* registry nor the log nor the position of any session; and each
\* notification is attempted once, never again after it ended.
C25_FireAndForget ==
    [][/\ \A c \in Cameras :
             (pc[c] = "notify" /\ pc'[c] # "notify")
                 => /\ pc'[c] = "label"
                    /\ \A i \in 1..Len(email_threads') :
                          i > Len(email_threads)
                              => /\ email_threads'[i].state = "running"
                                 /\ email_threads'[i].camera_id = c
       /\ \A i \in 1..Len(email_threads) :
             /\ email_threads'[i].attempts <= 1
             /\ email_threads[i].state \in {"sent", "failed"}
                   => email_threads'[i] = email_threads[i]
             /\ email_threads'[i] # email_threads[i]
                   => /\ stop_event' = stop_event
                      /\ last_unknown_capture_time' = last_unknown_capture_time
                      /\ db' = db
                      /\ log' = log
                      /\ pc' = pc
      ]_vars

\* Witness of C25: the send of the first notification failed; the second
\* event has dispatched its own and its session is back at the face loop
\* while that send is still running.
C25_Witness ==
    /\ Len(email_threads) = 2
    /\ email_threads[1].state = "failed"
    /\ email_threads[1].attempts = 1
    /\ email_threads[2].state = "running"
    /\ pc[email_threads[2].camera_id] = "face"
    /\ ~stop_event

\* A session inside the side effects of a full event.
InSideEffects(c) ==
    pc[c] \in {"event", "save_open", "save_dump", "capture", "log",
               "log_write", "notify", "label"}

\* C26: the global debounce mutex is held only for the compare-and-update
\* of the shared timestamp: its holder is at the gate check, no session
\* holds it during registry resolution, snapshot capture, log append or
\* notification dispatch, and no session holds it together with the log
\* file lock; so a session waiting for the mutex waits only for a gate
\* check, never for a side effect.
C26_MutexOnlyAtGate ==
    \A c \in Cameras :
        /\ debounce_lock = c => pc[c] = "gate" /\ logging_lock # c
        /\ InSideEffects(c) => debounce_lock # c
        /\ logging_lock = c => pc[c] = "log_write"

\* Witness of C26: cam0 is appending to the log, holding the log file
\* lock, while cam1 holds the debounce mutex for its gate check.
C26_Witness ==
    /\ pc["cam0"] = "log_write"
    /\ logging_lock = "cam0"
    /\ pc["cam1"] = "gate"
    /\ debounce_lock = "cam1"

\* A step in which the global gate suppresses the full event of session c.
GateDenies(c) ==
    /\ pc[c] = "gate"
    /\ pc'[c] # "gate"
    /\ ~GateAllows(current_time_epoch[c], last_unknown_capture_time)

\* C27: when the global gate suppresses the full event of an unknown face,
\* the face is labelled on the frame with the identity-id of the previous
\* full event of the same session: the label is assigned (the session goes
\* on to its next face) and the id it carries is bound.
C27_SuppressedLabelIsPreviousId ==
    [][\A c \in Cameras :
          GateDenies(c) => /\ pc'[c] = "face"
                           /\ intruder_id_for_event[c] # None
      ]_vars

ReaderObserves(c) == stop_event /\ rpc[c] = "loop" /\ rpc'[c] # "loop"
ProcObserves(c) == stop_event /\ pc[c] = "top" /\ pc'[c] # "top"

\* C29: once the shared stop flag is set, every acquisition stage and every
\* recognition stage eventually terminates (a blocking read or call being
\* assumed to return); the stage that observes the set flag at the top of
\* its loop, which is also where a queue-read timeout leads, ends there
\* without reading or counting another frame, and an ended stage stays
\* ended.
C29_StopObservedAndTerminates ==
    /\ stop_event ~> (\A c \in Cameras : Terminated(c))
    /\ [][\A c \in Cameras :
            /\ ReaderObserves(c) =>
                   rpc'[c] = "exited" /\ acquired'[c] = acquired[c]
            /\ ProcObserves(c) =>
                   pc'[c] = "exited" /\ frame_counter'[c] = frame_counter[c]
            /\ (stop_event /\ pc[c] = "get" /\ internal_frame_queue[c] = <<>>)
                   => pc'[c] \in {"get", "top"}
            /\ ~ReaderAlive(c) => ~ReaderAlive(c)'
            /\ ~ProcAlive(c) => ~ProcAlive(c)'
        ]_vars

\* Witness of C29: the flag was set by the failed reopen of cam0 while
\* cam1 was running; both stages of cam1 have since left their loops at
\* the loop test, the recognition stage without taking the frame that
\* still waits in its queue.
C29_Witness ==
    /\ stop_event
    /\ fatal = {"cam0"}
    /\ rpc["cam0"] = "exited"
    /\ rpc["cam1"] = "exited"
    /\ pc["cam1"] = "exited"
    /\ internal_frame_queue["cam1"] # <<>>
    /\ face_count["cam1"] = None

\* The names of the steps done so far in the current event of session c.
StepNames(c) == [i \in 1..Len(event_steps[c]) |-> event_steps[c][i].step]

IsPrefix(p, q) == Len(p) <= Len(q) /\ p = SubSeq(q, 1, Len(p))

\* The steps of session c's event named s.
StepsNamed(c, s) ==
    {i \in 1..Len(event_steps[c]) : event_steps[c][i].step = s}

\* The log entry and the notification of an event carry what the event
\* resolved and named: the id of its resolve step and one and the same path.
CarriesIdAndPath(c) ==
    LET ev == event_steps[c]
    IN  /\ \A i \in StepsNamed(c, "log") :
               /\ ev[i].id = ev[1].id
               /\ ev[i].path = ev[2].path
               /\ \E k \in 1..Len(log) :
                      /\ log[k].name = <<"Intruder", ev[1].id>>
                      /\ log[k].image_link = ev[2].path
        /\ \A i \in StepsNamed(c, "notify") :
               /\ ev[i].path = ev[2].path
               /\ [image_path |-> ev[2].path, camera_id |-> c] \in sent

\* C30, as stated: the steps of a granted full event are done in the order
\* resolve, snapshot, log, notify, each only after every earlier one
\* succeeded, and the log entry and the notification carry the id and the
\* path of the snapshot written in that event.
C30_OrderedAndFailureSkipsRest ==
    \A c \in Cameras :
        /\ IsPrefix(StepNames(c), <<"resolve", "snapshot", "log", "notify">>)
        /\ CarriesIdAndPath(c)
        /\ \A i \in StepsNamed(c, "log") \cup StepsNamed(c, "notify") :
               event_steps[c][i].path \in snapshots

\* C30, amended: the steps of a granted full event are done in the order
\* resolve, capture, log, notify; the log entry carries the id resolved in
\* that event and the path the capture of that event was made under, and
\* the notification that same path, whether or not imwrite wrote the file;
\* an exception of the resolution or of the capture skips every later
\* step, while a failed log append, which write_log_entry keeps to itself,
\* skips nothing: the notification is dispatched all the same.
C30_OrderedCaptureOrResolveFailureSkips ==
    \A c \in Cameras :
        /\ \E capture \in {"snapshot", "not_written"} :
               \/ IsPrefix(StepNames(c), <<"resolve", capture, "log", "notify">>)
               \/ StepNames(c) = <<"resolve", capture, "notify">>
        /\ CarriesIdAndPath(c)
        /\ \A i \in StepsNamed(c, "snapshot") :
               event_steps[c][i].path \in snapshots

\* Witness of C30: an event of cam0 resolved its id and wrote its
\* snapshot, its log append failed, and its notification was dispatched
\* with the path of the snapshot.
C30_Witness ==
    /\ StepNames("cam0") = <<"resolve", "snapshot", "notify">>
    /\ event_steps["cam0"][3].path = event_steps["cam0"][2].path
    /\ event_steps["cam0"][2].path \in snapshots
    /\ log = <<>>
    /\ pc["cam0"] = "label"

\* A step in which the global gate grants the detection of session c.
GateGrants(c) == pc[c] = "gate" /\ pc'[c] = "event"

\* C31: the shared timestamp is set to the sampled time of the detection
\* in the very step in which the gate grants it, a step that runs no side
\* effect; no other step changes the timestamp, so the failure of a side
\* effect does not take the grant back; and a grant is made only to a
\* detection sampled at least the window after every earlier grant,
\* whatever became of that grant's event.
C31_GrantStampsBeforeSideEffects ==
    [][/\ \A c \in Cameras :
            GateGrants(c) =>
               /\ last_unknown_capture_time' = current_time_epoch[c]
               /\ UNCHANGED <<db, snapshots, log, sent, email_threads,
                              event_steps, intruder_id_for_event>>
               /\ \A j \in Granted :
                      current_time_epoch[c] - gate_log[j].t
                          >= UNKNOWN_CAPTURE_DEBOUNCE_TIME
       /\ (last_unknown_capture_time' # last_unknown_capture_time)
             => \E c \in Cameras : GateGrants(c)
      ]_vars

\* Witness of C31: the detection cam0 sampled at 10 was granted and its
\* event failed at the capture, with no snapshot, no log entry and no
\* notification; a detection sampled at 19 was then denied, and the
\* timestamp is still that of the grant.
C31_Witness ==
    /\ Len(gate_log) = 2
    /\ gate_log[1] = [t |-> 10, granted |-> TRUE]
    /\ gate_log[2] = [t |-> 19, granted |-> FALSE]
    /\ StepNames("cam0") = <<"resolve">>
    /\ pc["cam0"] = "face"
    /\ snapshots = {} /\ log = <<>> /\ sent = {}
    /\ last_unknown_capture_time = 10

Range(f) == {f[i] : i \in DOMAIN f}

\* The session of camera c exists: its threads were started.
Started(c) == rpc[c] # "unstarted" \/ pc[c] # "unstarted"

\* C32: a session exists only for a configured camera whose open check
\* succeeded; and when the supervisor has returned with no camera
\* configured, or with none that passed the check, the stop flag is set
\* and no session or thread was created.
C32_StartsOnlyCheckedCameras ==
    /\ \A c \in Cameras :
          Started(c) => /\ c \in Range(available_cameras_inputs)
                        /\ c \in passed
    /\ (sup_pc = "returned" /\ (available_cameras_inputs = <<>> \/ passed = {}))
          => /\ stop_event
             /\ \A c \in Cameras : ~Started(c)
    /\ (sup_pc \in {"wait", "stop", "join_reader", "join_proc"})
          => \A c \in passed : Started(c)

\* Witness of C32: of two configured cameras cam0 failed the check and
\* cam1 passed it; only the session of cam1 was started.
C32_Witness ==
    /\ available_cameras_inputs = <<"cam0", "cam1">>
    /\ passed = {"cam1"}
    /\ sup_pc = "wait"
    /\ Started("cam1")
    /\ ~Started("cam0")

\* The pieces of call k's line that are in the file.
PiecesOf(k) == {i \in 1..Len(log_file) : log_file[i].entry = k}

\* The file is a sequence of whole lines, each the two pieces of one call
\* next to each other, followed at most by the first piece of the line
\* that the holder of the lock is writing.
WholeLines ==
    /\ \A i \in 1..Len(log_file) :
          IF i % 2 = 1
          THEN /\ log_file[i].part = 1
               /\ i < Len(log_file) =>
                      log_file[i + 1] = Piece(log_file[i].entry, 2)
          ELSE log_file[i].part = 2
    /\ Len(log_file) % 2 = 1 =>
          \E t \in Callers :
              /\ pc[t] = "w_flush"
              /\ logging_lock = t
              /\ formatted_entry[t] = log_file[Len(log_file)].entry

C34_GrantsApartStampMonotone ==
    /\ [](\A i \in Granted : \A j \in Granted :
              i < j => gate_log[j].t - gate_log[i].t
                           >= UNKNOWN_CAPTURE_DEBOUNCE_TIME)
    /\ [][last_unknown_capture_time' >= last_unknown_capture_time]_vars
    /\ [][\A c \in Cameras :
             (pc[c] = "gate" /\ pc'[c] # "gate"
                /\ current_time_epoch[c] < last_unknown_capture_time)
                => /\ pc'[c] # "event"
                   /\ last_unknown_capture_time' = last_unknown_capture_time
        ]_vars

\* Witness of C34: cam1 sampled the clock at 10 and cam0 at 11; cam0 took
\* the lock first and was granted, and cam1 came to the gate with its
\* older time and was denied.
C34_Witness ==
    /\ Len(gate_log) = 2
    /\ gate_log[1] = [t |-> 11, granted |-> TRUE]
    /\ gate_log[2] = [t |-> 10, granted |-> FALSE]
    /\ last_unknown_capture_time = 11

\* C35: in every reachable state, a session whose recognition stage has
\* terminated, by leaving its loop or by dying of an exception, finds the
\* shared stop flag set.
C35_TerminatedOnlyWhenStopped ==
    \A c \in Cameras : pc[c] \in {"exited", "dead"} => stop_event

\* C36: match_or_add_intruder never reduces the number of records in the
\* persisted registry: an invocation that saves puts at least as many
\* records in the file as the file holds when the save begins, whatever
\* the interleaving and whatever its load read.
C36_RegistryNeverShrinks ==
    [][\A t \in Callers :
          (pc[t] = "save_open" /\ pc'[t] = "save_dump")
              => Len(encodings[t]) >= Len(db)
      ]_vars

\* C37: after any sequence of match_or_add_intruder calls and manual
\* deletions the ids in the persisted registry are pairwise distinct: no
\* new record is given an id that a record of the registry still has.
C37_IdsDistinct ==
    \A i \in 1..Len(db) : \A j \in 1..Len(db) :
        i # j => db[i].id # db[j].id

\* The driver calls match_or_add_intruder with the descriptor of its
\* previous call.
RepeatedCall ==
    /\ pc["drv0"] = "idle"
    /\ pc' # pc \/ calls' # calls
    /\ Len(calls) >= 1
    /\ face_encoding'["drv0"] = calls[Len(calls)].enc

\* C38: match_or_add_intruder is idempotent on a descriptor: called again
\* with the descriptor of the call before, it returns at once with the id
\* that call returned and leaves the persisted registry as it is, so the
\* registry grows by at most one record over the two calls.
C38_Idempotent ==
    /\ [][RepeatedCall =>
             /\ pc'["drv0"] = "idle"
             /\ calls' = Append(calls, calls[Len(calls)])
             /\ db' = db
        ]_vars
    /\ [](\A k \in 1..(Len(calls) - 1) :
              calls[k].enc = calls[k + 1].enc => calls[k].id = calls[k + 1].id)

\* Witness of C38: the novel descriptor 2.0 was resolved twice after
\* another one: both calls returned Intruder_2 and the registry holds two
\* records.
C38_Witness ==
    /\ pc["drv0"] = "idle"
    /\ calls = <<[enc |-> 9, id |-> 1], [enc |-> 20, id |-> 2],
                 [enc |-> 20, id |-> 2]>>
    /\ db = <<[enc |-> 9, id |-> 1], [enc |-> 20, id |-> 2]>>

\* C39: the stop flag of a run is not cleared while an acquisition or
\* recognition thread of that run is alive: whenever a handler of the
\* collaborator cleared the flag, every session thread had terminated.
C39_ClearedAfterAllTerminated ==
    alive_at_clear = {}

====
